---- MODULE Spec2Model ----
(***************************************************************************)
(* CodeVoyage (tsukumon/codevoyage): the time tracker's session state      *)
(* machine (TimeTracker + ActivityDetector), the StorageService that keeps *)
(* the daily aggregates, and the StatisticsService that rolls them up.     *)
(*                                                                         *)
(* Time is counted in ticks of the tracker's 30 s timer.  Date keys        *)
(* 'YYYY-MM-DD' are modelled as triples <<y, m, d>>: the zero-padded       *)
(* string order is the lexicographic order of the triples.  The host's     *)
(* local time zone is taken to have a fixed UTC offset.                    *)
(***************************************************************************)
EXTENDS Integers, Sequences, FiniteSets, TLC

\* ------------------------------------------------------------------ bounds

\* Latest clock value of the tracker specifications, in timer periods.
MaxTime == 3
\* Largest idle timeout the tracker specifications try, in timer periods.
MaxTimeout == 1
\* Number of sessions a behaviour may start (generateUUID is drawn this often).
MaxSessions == 2
\* Characters typed in a behaviour.
MaxChars == 1
\* Length of the window of dates that may hold an aggregate (statistics).
WindowLen == 7
\* Largest totalTimeMs of a sampled daily aggregate (statistics).
MaxDayTotal == 1
\* Largest totalTimeMs, in hours, of a daily aggregate in a store or an import file.
MaxImportTotal == 2
\* Number of times the import command is run in a behaviour.
MaxImports == 1
\* Largest duration handed to recordSessionTime (storage).
MaxDuration == 2
\* Most time recorded in the store, over all dates (storage).
MaxStoreTotal == 3
\* the last instant (in timer periods) of a tracker whose store fails
MaxFailTime == 2
\* calls of persist looked at in a row
MaxPersists == 3

\* Calls of the mutators of the store in a behaviour.
MaxMutations == 2

\* At most this many async functions are suspended at a time.
MaxInFlight == 2

\* The clock of the tracker with a short idle timeout stops here.
MaxShortTime == 5

\* -------------------------------------------------------- program constants

\* const SCHEMA_VERSION = 1
SCHEMA_VERSION == 1
\* persist(retryCount: number = 3)
RetryCount == 3
\* default settings.idleTimeoutMs: 300000 ms = 10 timer periods of 30000 ms
DefaultIdleTimeout == 10
\* the backoff after the first failed write, in ms
BackoffMs == 100
\* (config.get('idleTimeout') || 300): 300 s = 10 timer periods
FallbackIdleTimeout == 10
\* setInterval(..., 30000): one timer period in units of 15000 ms
ShortPeriod == 2
\* 1000 * 60 * 60 ms, where the statistics count units of 30 minutes
HourMs == 2

\* ------------------------------------------------------------------- dates

IsLeapYear(y) == (y % 4 = 0 /\ y % 100 # 0) \/ y % 400 = 0

DaysInMonth(y, m) ==
  IF m = 2 THEN (IF IsLeapYear(y) THEN 29 ELSE 28)
  ELSE IF m \in {4, 6, 9, 11} THEN 30 ELSE 31

DaysInYear(y) == IF IsLeapYear(y) THEN 366 ELSE 365

RECURSIVE DaysBeforeYear(_)
\* Days from 2023-01-01 to the 1st of January of year y (y >= 2023).
DaysBeforeYear(y) == IF y <= 2023 THEN 0 ELSE DaysBeforeYear(y - 1) + DaysInYear(y - 1)

RECURSIVE DaysBeforeMonth(_, _)
DaysBeforeMonth(y, m) == IF m <= 1 THEN 0 ELSE DaysBeforeMonth(y, m - 1) + DaysInMonth(y, m - 1)

\* new Date('YYYY-MM-DD').getTime() / 86400000, counted from 2023-01-01.
DateToDays(k) == DaysBeforeYear(k[1]) + DaysBeforeMonth(k[1], k[2]) + (k[3] - 1)

RECURSIVE YearOfDays(_, _)
YearOfDays(n, y) == IF n < DaysInYear(y) THEN <<y, n>> ELSE YearOfDays(n - DaysInYear(y), y + 1)

RECURSIVE MonthOfDays(_, _, _)
MonthOfDays(y, n, m) ==
  IF n < DaysInMonth(y, m) THEN <<y, m, n + 1>> ELSE MonthOfDays(y, n - DaysInMonth(y, m), m + 1)

\* formatDate / toISOString().split('T')[0]: the date key of day number n >= 0.
formatDate(n) == LET yn == YearOfDays(n, 2023) IN MonthOfDays(yn[1], yn[2], 1)

\* Date.getDay(): 0 = Sunday; 2023-01-01 was a Sunday.
getDay(n) == n % 7

\* a.localeCompare(b) < 0 on zero-padded date strings.
DateLess(a, b) ==
  \/ a[1] < b[1]
  \/ a[1] = b[1] /\ a[2] < b[2]
  \/ a[1] = b[1] /\ a[2] = b[2] /\ a[3] < b[3]

\* The calendar date after k, by the calendar's own rules.
NextDate(k) ==
  IF k[3] < DaysInMonth(k[1], k[2]) THEN <<k[1], k[2], k[3] + 1>>
  ELSE IF k[2] < 12 THEN <<k[1], k[2] + 1, 1>>
  ELSE <<k[1] + 1, 1, 1>>

\* isNightOwlHour(hour)
isNightOwlHour(h) == h >= 22 \/ h < 4

\* getWeekBounds(offset) on the date td: Monday to Sunday
getWeekBounds(td, offset) ==
  LET n == DateToDays(td)
      dayOfWeek == getDay(n)
      daysToMonday == IF dayOfWeek = 0 THEN 6 ELSE dayOfWeek - 1
      monday == n - daysToMonday + (offset * 7)
      sunday == monday + 6
  IN [start |-> formatDate(monday), end |-> formatDate(sunday)]

\* getMonthBounds(offset) on the date td: new Date(year, month + offset, 1)
\* carries a month index outside 0..11 into the year
getMonthBounds(td, offset) ==
  LET index == (td[2] - 1) + offset
      y == td[1] + (index \div 12)
      m == (index % 12) + 1
  IN [start |-> <<y, m, 1>>, end |-> <<y, m, DaysInMonth(y, m)>>]

\* getYearBounds(offset) on the date td
getYearBounds(td, offset) ==
  [start |-> <<td[1] + offset, 1, 1>>, end |-> <<td[1] + offset, 12, 31>>, year |-> td[1] + offset]

\* isDecember() on the date td
isDecember(td) == td[2] = 12

\* -------------------------------------------------------------------- maps

\* A Record<string, number>: a function on the keys present.
EmptyMap == [k \in {} |-> 0]
Get(m, k) == IF k \in DOMAIN m THEN m[k] ELSE 0
Put(m, k, v) == [x \in (DOMAIN m) \cup {k} |-> IF x = k THEN v ELSE m[x]]
\* The spread that keeps only its last operand.
Spread_replace(a, b) == b

\* { ...a, ...b }
Spread(a, b) == [x \in (DOMAIN a) \cup (DOMAIN b) |-> IF x \in DOMAIN b THEN b[x] ELSE a[x]]

RECURSIVE SumOver(_, _)
SumOver(m, S) ==
  IF S = {} THEN 0 ELSE LET x == CHOOSE x \in S : TRUE IN m[x] + SumOver(m, S \ {x})
MapSum(m) == SumOver(m, DOMAIN m)

Max(a, b) == IF a >= b THEN a ELSE b

\* The one element of a one-element set.  In { e(x) : x \in {v} } the value v
\* is computed once and e reads it as x: this is how the handlers below name
\* the value a call leaves before they go on.
The(S) == CHOOSE x \in S : TRUE

\* ----------------------------------------------------------- StorageService

\* null / undefined
Null == [null |-> TRUE]

\* getDefaultSchema().settings
DefaultSettings == [idleTimeoutMs |-> DefaultIdleTimeout, showStatusBar |-> TRUE, language |-> "ja"]

\* getDefaultSchema()
getDefaultSchema ==
  [version |-> SCHEMA_VERSION, currentSession |-> Null, dailyStats |-> EmptyMap,
   settings |-> DefaultSettings]

\* createEmptyDailyStats(date)
createEmptyDailyStats(date) ==
  [date |-> date, totalTimeMs |-> 0, activeTimeMs |-> 0, projectTime |-> EmptyMap,
   languageTime |-> EmptyMap, hourlyDistribution |-> [h \in 0..23 |-> 0],
   fileTimeMs |-> EmptyMap, fileWorkspaces |-> EmptyMap, editedFileCount |-> 0,
   totalCharactersEdited |-> 0, nightOwlTimeMs |-> 0, longestSessionMs |-> 0]

\* getDailyStats(date): the aggregate, or null
getDailyStats(c, date) == IF date \in DOMAIN c.dailyStats THEN c.dailyStats[date] ELSE Null

RECURSIVE StatsOfDays(_, _)
\* The aggregates pushed for the day numbers `days`, earliest first.
StatsOfDays(c, days) ==
  IF days = {} THEN <<>>
  ELSE LET n == CHOOSE x \in days : \A y \in days : x <= y
       IN <<c.dailyStats[formatDate(n)]>> \o StatsOfDays(c, days \ {n})

\* The loop of getStatsRange over the day numbers first..last: a day's
\* aggregate is pushed when its date key is present.  Only the days some key
\* of the store parses to are tried.
StatsFromDay(c, first, last) ==
  LET candidates == {DateToDays(k) : k \in DOMAIN c.dailyStats} \cap (first..last)
  IN StatsOfDays(c, {n \in candidates : formatDate(n) \in DOMAIN c.dailyStats})

\* getStatsRange that stops the day before endDate.
getStatsRange_exclusiveEnd(c, startDate, endDate) ==
  IF c = Null THEN <<>> ELSE StatsFromDay(c, DateToDays(startDate), DateToDays(endDate) - 1)

\* getStatsRange(startDate, endDate): the aggregates present, day by day
getStatsRange(c, startDate, endDate) ==
  IF c = Null THEN <<>> ELSE StatsFromDay(c, DateToDays(startDate), DateToDays(endDate))

\* getOrCreateTodayStats that starts a new map of dates for a new day.
getOrCreateTodayStats_onlyToday(c, date) ==
  IF getDailyStats(c, date) # Null THEN c
  ELSE [c EXCEPT !.dailyStats = Put(EmptyMap, date, createEmptyDailyStats(date))]

\* getOrCreateTodayStats(): the cache with today's aggregate present
getOrCreateTodayStats(c, date) ==
  IF getDailyStats(c, date) # Null THEN c
  ELSE [c EXCEPT !.dailyStats = Put(@, date, createEmptyDailyStats(date))]

\* updateDailyStats(date, stats), without its persist
updateDailyStats(c, date, stats) == [c EXCEPT !.dailyStats = Put(@, date, stats)]

\* recordSessionTime with the project bucket assigned instead of accumulated.
recordSessionTime_assignProject(c, date, session, durationMs, h, isNightOwl) ==
  LET c1 == getOrCreateTodayStats(c, date)
      stats == c1.dailyStats[date]
      stats1 ==
        [stats EXCEPT
           !.totalTimeMs = @ + durationMs,
           !.activeTimeMs = IF session.isActive THEN @ + durationMs ELSE @,
           !.projectTime = Put(@, session.workspacePath, durationMs),
           !.languageTime = Put(@, session.languageId, Get(@, session.languageId) + durationMs),
           !.hourlyDistribution = [@ EXCEPT ![h] = @ + durationMs],
           !.nightOwlTimeMs = IF isNightOwl THEN @ + durationMs ELSE @]
  IN updateDailyStats(c1, date, stats1)

\* recordSessionTime(session, durationMs, hour, isNightOwl), without its persist
recordSessionTime(c, date, session, durationMs, h, isNightOwl) ==
  LET c1 == getOrCreateTodayStats(c, date)
      stats == c1.dailyStats[date]
      stats1 ==
        [stats EXCEPT
           !.totalTimeMs = @ + durationMs,
           !.activeTimeMs = IF session.isActive THEN @ + durationMs ELSE @,
           !.projectTime = Put(@, session.workspacePath, Get(@, session.workspacePath) + durationMs),
           !.languageTime = Put(@, session.languageId, Get(@, session.languageId) + durationMs),
           !.hourlyDistribution = [@ EXCEPT ![h] = @ + durationMs],
           !.nightOwlTimeMs = IF isNightOwl THEN @ + durationMs ELSE @]
  IN updateDailyStats(c1, date, stats1)

\* recordFileTime with the file bucket assigned instead of accumulated.
recordFileTime_assign(c, date, filePath, durationMs, workspaceName) ==
  LET c1 == getOrCreateTodayStats(c, date)
      stats == c1.dailyStats[date]
      stats1 ==
        [stats EXCEPT
           !.fileTimeMs = Put(@, filePath, durationMs),
           !.fileWorkspaces = IF workspaceName # "" THEN Put(@, filePath, workspaceName) ELSE @]
  IN updateDailyStats(c1, stats1.date, stats1)

\* recordFileTime(filePath, durationMs, workspaceName), without its persist
recordFileTime(c, date, filePath, durationMs, workspaceName) ==
  LET c1 == getOrCreateTodayStats(c, date)
      stats == c1.dailyStats[date]
      stats1 ==
        [stats EXCEPT
           !.fileTimeMs = Put(@, filePath, Get(@, filePath) + durationMs),
           !.fileWorkspaces = IF workspaceName # "" THEN Put(@, filePath, workspaceName) ELSE @]
  IN updateDailyStats(c1, stats1.date, stats1)

\* recordCharactersEdited(count), without its persist
recordCharactersEdited(c, date, count) ==
  LET c1 == getOrCreateTodayStats(c, date)
      stats == c1.dailyStats[date]
  IN updateDailyStats(c1, stats.date, [stats EXCEPT !.totalCharactersEdited = @ + count])

\* updateLongestSession that records the duration whatever it is.
updateLongestSession_assign(c, date, durationMs) ==
  LET c1 == getOrCreateTodayStats(c, date)
      stats == c1.dailyStats[date]
  IN updateDailyStats(c1, stats.date, [stats EXCEPT !.longestSessionMs = durationMs])

\* updateLongestSession(durationMs), without its persist
updateLongestSession(c, date, durationMs) ==
  LET c1 == getOrCreateTodayStats(c, date)
      stats == c1.dailyStats[date]
  IN IF durationMs > stats.longestSessionMs
     THEN updateDailyStats(c1, stats.date, [stats EXCEPT !.longestSessionMs = durationMs])
     ELSE c1

\* incrementEditedFileCount(), without its persist
incrementEditedFileCount(c, date) ==
  LET c1 == getOrCreateTodayStats(c, date)
      stats == c1.dailyStats[date]
  IN updateDailyStats(c1, stats.date, [stats EXCEPT !.editedFileCount = @ + 1])

\* getSettings()
getSettings(c) == IF c # Null THEN c.settings ELSE DefaultSettings

\* updateSettings(settings), without its persist
updateSettings(c, settings) == [c EXCEPT !.settings = Spread(@, settings)]

\* setCurrentSession(session), without its persist
setCurrentSession(c, session) == IF c # Null THEN [c EXCEPT !.currentSession = session] ELSE c

\* clearAllData(), without its persist
clearAllData == getDefaultSchema

\* The export that leaves the version out.
exportData_noVersion(c) ==
  IF c = Null THEN [kind |-> "null"]
  ELSE [kind |-> "object", version |-> [defined |-> FALSE, value |-> 0],
        dailyStats |-> [type |-> "object", value |-> c.dailyStats],
        settings |-> [defined |-> TRUE, value |-> c.settings]]

\* exportData(): { ...this.cache } as importData sees it, or null
exportData(c) ==
  IF c = Null THEN [kind |-> "null"]
  ELSE [kind |-> "object", version |-> [defined |-> TRUE, value |-> c.version],
        dailyStats |-> [type |-> "object", value |-> c.dailyStats],
        settings |-> [defined |-> TRUE, value |-> c.settings]]

\* The write that replaces only the daily aggregates of the stored value.
update_dailyStatsOnly(durable, value) == [durable EXCEPT !.dailyStats = value.dailyStats]

\* globalState.update(STORAGE_KEY, this.cache): the value globalState holds
\* after an accepted write
update(durable, value) == value

RECURSIVE PersistLoop_constantBackoff(_, _, _, _, _)
\* The retry loop that waits 100 ms after every failed attempt.
PersistLoop_constantBackoff(c, durable, rejects, attempt, waits) ==
  IF attempt > RetryCount
  THEN [durable |-> durable, attempts |-> attempt - 1, waits |-> waits, warnings |-> 0, threw |-> FALSE]
  ELSE IF ~rejects[attempt]
  THEN [durable |-> update(durable, c), attempts |-> attempt, waits |-> waits,
        warnings |-> 0, threw |-> FALSE]
  ELSE IF attempt = RetryCount
  THEN [durable |-> durable, attempts |-> attempt, waits |-> waits, warnings |-> 1, threw |-> TRUE]
  ELSE PersistLoop_constantBackoff(c, durable, rejects, attempt + 1, Append(waits, BackoffMs))

RECURSIVE PersistLoop(_, _, _, _, _)
\* The loop of persist from attempt `attempt` on, rejects[k] telling whether
\* globalState.update rejects attempt k: a write accepted returns; a write
\* rejected on the last attempt shows the error message and throws, on an
\* earlier attempt waits 100 * attempt ms and goes round again.
PersistLoop(c, durable, rejects, attempt, waits) ==
  IF attempt > RetryCount
  THEN [durable |-> durable, attempts |-> attempt - 1, waits |-> waits, warnings |-> 0, threw |-> FALSE]
  ELSE IF ~rejects[attempt]
  THEN [durable |-> update(durable, c), attempts |-> attempt, waits |-> waits,
        warnings |-> 0, threw |-> FALSE]
  ELSE IF attempt = RetryCount
  THEN [durable |-> durable, attempts |-> attempt, waits |-> waits, warnings |-> 1, threw |-> TRUE]
  ELSE PersistLoop(c, durable, rejects, attempt + 1, Append(waits, BackoffMs * attempt))

\* persist(retryCount = 3): the durable value afterwards, the attempts made,
\* the waits between them, the error messages shown and whether it threw.
persistWith(c, durable, rejects) ==
  IF c = Null
  THEN [durable |-> durable, attempts |-> 0, waits |-> <<>>, warnings |-> 0, threw |-> FALSE]
  ELSE PersistLoop(c, durable, rejects, 1, <<>>)

\* persist(retryCount = 3) when the first `failures` writes are rejected: the
\* durable value afterwards, the attempts made, whether the user was warned
\* and whether persist threw.
persist(c, durable, failures) ==
  LET p == persistWith(c, durable, [k \in 1..RetryCount |-> k <= failures])
  IN [durable |-> p.durable, attempts |-> p.attempts, warned |-> p.warnings > 0,
      threw |-> p.threw]

\* A value read from an import file is tagged with what JavaScript sees:
\*   the payload   [kind |-> "null"] or [kind |-> "object", version, dailyStats, settings]
\*   version       [defined |-> FALSE, value |-> 0] or [defined |-> TRUE, value |-> n]
\*   dailyStats    [type |-> "undefined" | "string" | "object", value |-> the map]
\*   settings      [defined |-> FALSE, value |-> <<>>] or [defined |-> TRUE, value |-> fields]

\* migrate(oldSchema)
migrate(old) ==
  [version |-> SCHEMA_VERSION, currentSession |-> Null,
   dailyStats |-> IF old.dailyStats.type = "object" THEN old.dailyStats.value ELSE EmptyMap,
   settings |-> Spread(DefaultSettings, IF old.settings.defined THEN old.settings.value ELSE EmptyMap)]

\* The body of importData's try block with the first `failures` writes of its
\* persist rejected: how it leaves (return or throw), the result returned, and
\* the cache and the durable value it leaves behind.
importData_try(c, durable, data, failures) ==
  IF data.kind = "null"
  THEN \* data.version: TypeError
       [kind |-> "throw", result |-> Null, cache |-> c, durable |-> durable]
  ELSE IF ~data.version.defined \/ data.version.value = 0 \/ data.version.value > SCHEMA_VERSION
  THEN [kind |-> "return", cache |-> c, durable |-> durable,
        result |-> [success |-> FALSE, message |-> "Unsupported data version", importedDays |-> 0]]
  ELSE IF data.dailyStats.type # "object"
  THEN [kind |-> "return", cache |-> c, durable |-> durable,
        result |-> [success |-> FALSE, message |-> "Invalid data format", importedDays |-> 0]]
  ELSE LET migrated == data.version.value < SCHEMA_VERSION
           dataDailyStats == IF migrated THEN migrate(data).dailyStats ELSE data.dailyStats.value
           dataSettings ==
             IF migrated THEN migrate(data).settings
             ELSE IF data.settings.defined THEN data.settings.value ELSE EmptyMap
           merged ==
             IF c # Null
             THEN [c EXCEPT !.dailyStats = Spread(@, dataDailyStats),
                            !.settings = Spread(@, dataSettings)]
             ELSE [version |-> IF migrated THEN SCHEMA_VERSION ELSE data.version.value,
                   currentSession |-> Null, dailyStats |-> dataDailyStats,
                   settings |-> dataSettings]
           p == persist(merged, durable, failures)
       IN IF p.threw
          THEN [kind |-> "throw", result |-> Null, cache |-> merged, durable |-> p.durable]
          ELSE [kind |-> "return", cache |-> merged, durable |-> p.durable,
                result |-> [success |-> TRUE, message |-> "Successfully imported",
                            importedDays |-> Cardinality(DOMAIN dataDailyStats)]]

\* importData(data): the try block, and the catch that turns a throw into a
\* failure result
importData(c, durable, data, failures) ==
  LET t == importData_try(c, durable, data, failures)
  IN IF t.kind = "throw"
     THEN [t EXCEPT !.kind = "return",
                    !.result = [success |-> FALSE, message |-> "Import failed", importedDays |-> 0]]
     ELSE t

\* -------------------------------------------------------- StatisticsService

RECURSIVE SumTotalTime(_)
\* dailyStats.reduce((sum, d) => sum + d.totalTimeMs, 0)
SumTotalTime(dailyStats) ==
  IF dailyStats = <<>> THEN 0 ELSE Head(dailyStats).totalTimeMs + SumTotalTime(Tail(dailyStats))

\* .filter(d => d.totalTimeMs > 0)
ActiveDays(dailyStats) == SelectSeq(dailyStats, LAMBDA d : d.totalTimeMs > 0)

\* Math.round((new Date(a).getTime() - new Date(b).getTime()) / 86400000)
DiffDays(a, b) == DateToDays(a) - DateToDays(b)

RECURSIVE StreakLoop_noBreak(_, _, _)
\* The loop of calculateStreak that skips a gap instead of stopping at it.
StreakLoop_noBreak(sorted, i, streak) ==
  IF i > Len(sorted) THEN streak
  ELSE IF DiffDays(sorted[i - 1].date, sorted[i].date) = 1
       THEN StreakLoop_noBreak(sorted, i + 1, streak + 1)
       ELSE StreakLoop_noBreak(sorted, i + 1, streak)

RECURSIVE StreakLoop(_, _, _)
\* The loop of calculateStreak from (1-based) index i: break at the first gap.
StreakLoop(sorted, i, streak) ==
  IF i > Len(sorted) THEN streak
  ELSE IF DiffDays(sorted[i - 1].date, sorted[i].date) = 1
       THEN StreakLoop(sorted, i + 1, streak + 1)
       ELSE streak

\* calculateStreak(dailyStats)
calculateStreak(dailyStats) ==
  LET sorted == SortSeq(ActiveDays(dailyStats), LAMBDA a, b : DateLess(b.date, a.date))
  IN IF Len(sorted) = 0 THEN 0 ELSE StreakLoop(sorted, 2, 1)

RECURSIVE LongestStreakLoop_maxFirst(_, _, _, _)
\* The loop of calculateLongestStreak that takes the maximum before it counts
\* the day.
LongestStreakLoop_maxFirst(sorted, i, longestStreak, currentStreak) ==
  IF i > Len(sorted) THEN longestStreak
  ELSE IF DiffDays(sorted[i].date, sorted[i - 1].date) = 1
       THEN LongestStreakLoop_maxFirst(sorted, i + 1, Max(longestStreak, currentStreak),
                                       currentStreak + 1)
       ELSE LongestStreakLoop_maxFirst(sorted, i + 1, longestStreak, 1)

RECURSIVE LongestStreakLoop(_, _, _, _)
\* The loop of calculateLongestStreak from (1-based) index i.
LongestStreakLoop(sorted, i, longestStreak, currentStreak) ==
  IF i > Len(sorted) THEN longestStreak
  ELSE IF DiffDays(sorted[i].date, sorted[i - 1].date) = 1
       THEN LongestStreakLoop(sorted, i + 1, Max(longestStreak, currentStreak + 1), currentStreak + 1)
       ELSE LongestStreakLoop(sorted, i + 1, longestStreak, 1)

\* calculateLongestStreak(dailyStats)
calculateLongestStreak(dailyStats) ==
  LET sorted == SortSeq(ActiveDays(dailyStats), LAMBDA a, b : DateLess(a.date, b.date))
  IN IF Len(sorted) = 0 THEN 0 ELSE LongestStreakLoop(sorted, 2, 1, 1)

\* Object.entries(m): the entries of a map whose keys were inserted in the
\* order of `keys`.
ObjectEntries(m, keys) ==
  LET present == SelectSeq(keys, LAMBDA k : k \in DOMAIN m)
  IN [i \in 1..Len(present) |-> [key |-> present[i], value |-> m[present[i]]]]

\* aggregated[key] = (aggregated[key] || 0) + time: a new key goes last.
AddEntry(aggregated, e) ==
  IF \E i \in 1..Len(aggregated) : aggregated[i].key = e.key
  THEN [i \in 1..Len(aggregated) |->
          IF aggregated[i].key = e.key
          THEN [aggregated[i] EXCEPT !.value = @ + e.value] ELSE aggregated[i]]
  ELSE Append(aggregated, e)

RECURSIVE AddEntries(_, _)
AddEntries(aggregated, entries) ==
  IF entries = <<>> THEN aggregated
  ELSE AddEntries(AddEntry(aggregated, Head(entries)), Tail(entries))

RECURSIVE AggregateMaps(_, _, _)
\* for (const day of dailyStats) for (const [key, time] of Object.entries(map))
AggregateMaps(maps, keys, aggregated) ==
  IF maps = <<>> THEN aggregated
  ELSE AggregateMaps(Tail(maps), keys, AddEntries(aggregated, ObjectEntries(Head(maps), keys)))

\* Array.prototype.sort with a comparator on the numbers key[i]: ascending
\* and stable.
StableSort(seq, key) ==
  LET rank(i) == Cardinality({j \in 1..Len(seq) :
                                key[j] < key[i] \/ (key[j] = key[i] /\ j < i)}) + 1
  IN [p \in 1..Len(seq) |-> seq[CHOOSE i \in 1..Len(seq) : rank(i) = p]]

\* .sort((a, b) => b.totalTimeMs - a.totalTimeMs)
SortByTimeDesc(seq) == StableSort(seq, [i \in 1..Len(seq) |-> 0 - seq[i].totalTimeMs])

\* .slice(0, n)
Slice(seq, n) == SubSeq(seq, 1, IF Len(seq) < n THEN Len(seq) ELSE n)

\* totalTime > 0 ? (time / totalTime) * 100 : 0, kept as the exact fraction n/d
Percentage(time, totalTime) ==
  IF totalTime > 0 THEN [n |-> time * 100, d |-> totalTime] ELSE [n |-> 0, d |-> 1]

\* percentage >= k
AtLeast(percentage, k) == percentage.n >= k * percentage.d

\* The order in which the keys of the per-day maps were inserted.
ProjectKeys == <<"/w/p1", "/w/p2", "/w/p3", "/w/p4", "/w/p5", "/w/p6", "/w/p7", "/w/p8",
                 "/w/p9", "/w/p10">>
LanguageKeys == <<"typescript", "python", "go", "rust", "json", "markdown", "yaml", "css",
                  "html", "shellscript", "sql">>

\* aggregateProjectTimes(dailyStats), in insertion order
aggregateProjectTimes(dailyStats) ==
  AggregateMaps([i \in 1..Len(dailyStats) |-> dailyStats[i].projectTime], ProjectKeys, <<>>)

\* calculateTopProjects that sorts after it has cut.
calculateTopProjects_sliceFirst(projectTimes, totalTime) ==
  SortByTimeDesc(Slice([i \in 1..Len(projectTimes) |->
                          [path |-> projectTimes[i].key, totalTimeMs |-> projectTimes[i].value,
                           percentage |-> Percentage(projectTimes[i].value, totalTime)]], 5))

\* calculateTopProjects(projectTimes, totalTime)
calculateTopProjects(projectTimes, totalTime) ==
  Slice(SortByTimeDesc([i \in 1..Len(projectTimes) |->
                          [path |-> projectTimes[i].key, totalTimeMs |-> projectTimes[i].value,
                           percentage |-> Percentage(projectTimes[i].value, totalTime)]]), 5)

\* aggregateLanguageTimes(dailyStats), in insertion order
aggregateLanguageTimes(dailyStats) ==
  AggregateMaps([i \in 1..Len(dailyStats) |-> dailyStats[i].languageTime], LanguageKeys, <<>>)

\* calculateTopLanguages(languageTimes, totalTime)
calculateTopLanguages(languageTimes, totalTime) ==
  Slice(SortByTimeDesc([i \in 1..Len(languageTimes) |->
                          [languageId |-> languageTimes[i].key,
                           totalTimeMs |-> languageTimes[i].value,
                           percentage |-> Percentage(languageTimes[i].value, totalTime)]]), 5)

RECURSIVE SeqSum(_)
\* numbers.reduce((a, b) => a + b, 0)
SeqSum(numbers) == IF numbers = <<>> THEN 0 ELSE Head(numbers) + SeqSum(Tail(numbers))

\* getDayOfWeek(dateStr)
getDayOfWeek(date) == getDay(DateToDays(date))

\* getWeekNumber(dateStr): ceil((days + startOfYear.getDay() + 1) / 7)
getWeekNumber(date) ==
  LET startOfYear == DateToDays(<<date[1], 1, 1>>)
      days == DateToDays(date) - startOfYear
  IN (days + getDay(startOfYear) + 1 + 6) \div 7

\* aggregateHourlyDistribution(dailyStats)
aggregateHourlyDistribution(dailyStats) ==
  [hour \in 0..23 |->
     SeqSum([i \in 1..Len(dailyStats) |-> dailyStats[i].hourlyDistribution[hour]])]

\* calculateDayOfWeekDistribution(dailyStats)
calculateDayOfWeekDistribution(dailyStats) ==
  [dayIndex \in 0..6 |->
     SumTotalTime(SelectSeq(dailyStats, LAMBDA day : getDayOfWeek(day.date) = dayIndex))]

RECURSIVE LongestSessionLoop(_, _)
\* The loop of findLongestSession.
LongestSessionLoop(dailyStats, longestSessionMs) ==
  IF dailyStats = <<>> THEN longestSessionMs
  ELSE LongestSessionLoop(Tail(dailyStats),
                          IF Head(dailyStats).longestSessionMs > longestSessionMs
                          THEN Head(dailyStats).longestSessionMs ELSE longestSessionMs)

\* findLongestSession(dailyStats).longestSessionMs
findLongestSession(dailyStats) == LongestSessionLoop(dailyStats, 0)

RECURSIVE GroupKeys(_, _)
\* The keys of a Map filled from `units`, in the order of their insertion.
GroupKeys(units, seen) ==
  IF units = <<>> THEN seen
  ELSE GroupKeys(Tail(units),
                 IF \E i \in 1..Len(seen) : seen[i] = Head(units)
                 THEN seen ELSE Append(seen, Head(units)))

\* The top of Object.entries(times).sort((a, b) => b[1] - a[1]), or ''
TopKey(times) ==
  IF times = <<>> THEN ""
  ELSE StableSort(times, [i \in 1..Len(times) |-> 0 - times[i].value])[1].key

\* calculateWeeklyBreakdown that totals only the first day of each week.
calculateWeeklyBreakdown_firstDay(dailyStats) ==
  LET weekNums == GroupKeys([i \in 1..Len(dailyStats) |-> getWeekNumber(dailyStats[i].date)], <<>>)
      statsOf(w) == SelectSeq(dailyStats, LAMBDA day : getWeekNumber(day.date) = w)
      breakdowns == [i \in 1..Len(weekNums) |->
                       [weekNumber |-> weekNums[i],
                        weekStartDate |-> statsOf(weekNums[i])[1].date,
                        weekEndDate |-> statsOf(weekNums[i])[Len(statsOf(weekNums[i]))].date,
                        totalTimeMs |-> statsOf(weekNums[i])[1].totalTimeMs,
                        topLanguage |-> TopKey(aggregateLanguageTimes(statsOf(weekNums[i])))]]
  IN StableSort(breakdowns, [i \in 1..Len(breakdowns) |-> breakdowns[i].weekNumber])

\* calculateWeeklyBreakdown(dailyStats): the aggregates come in date order, so
\* a week's first and last are its startDate and endDate
calculateWeeklyBreakdown(dailyStats) ==
  LET weekNums == GroupKeys([i \in 1..Len(dailyStats) |-> getWeekNumber(dailyStats[i].date)], <<>>)
      statsOf(w) == SelectSeq(dailyStats, LAMBDA day : getWeekNumber(day.date) = w)
      breakdowns == [i \in 1..Len(weekNums) |->
                       [weekNumber |-> weekNums[i],
                        weekStartDate |-> statsOf(weekNums[i])[1].date,
                        weekEndDate |-> statsOf(weekNums[i])[Len(statsOf(weekNums[i]))].date,
                        totalTimeMs |-> SumTotalTime(statsOf(weekNums[i])),
                        topLanguage |-> TopKey(aggregateLanguageTimes(statsOf(weekNums[i])))]]
  IN StableSort(breakdowns, [i \in 1..Len(breakdowns) |-> breakdowns[i].weekNumber])

\* calculateMonthlyBreakdown(dailyStats, year)
calculateMonthlyBreakdown(dailyStats) ==
  LET months == GroupKeys([i \in 1..Len(dailyStats) |-> dailyStats[i].date[2]], <<>>)
      statsOf(m) == SelectSeq(dailyStats, LAMBDA day : day.date[2] = m)
      breakdowns == [i \in 1..Len(months) |->
                       [month |-> months[i],
                        totalTimeMs |-> SumTotalTime(statsOf(months[i])),
                        activeDays |-> Len(ActiveDays(statsOf(months[i]))),
                        topLanguage |-> TopKey(aggregateLanguageTimes(statsOf(months[i]))),
                        topProject |-> TopKey(aggregateProjectTimes(statsOf(months[i])))]]
  IN StableSort(breakdowns, [i \in 1..Len(breakdowns) |-> breakdowns[i].month])

\* The trend of calculateLanguageGrowth that takes the thresholds themselves
\* as a change.
Trend_inclusive(firstHalf, secondHalf) ==
  IF 10 * secondHalf >= 12 * firstHalf THEN "increasing"
  ELSE IF 10 * secondHalf <= 8 * firstHalf THEN "decreasing"
  ELSE "stable"

\* The trend of calculateLanguageGrowth: secondHalf against firstHalf * 1.2
\* and firstHalf * 0.8
Trend(firstHalf, secondHalf) ==
  IF 10 * secondHalf > 12 * firstHalf THEN "increasing"
  ELSE IF 10 * secondHalf < 8 * firstHalf THEN "decreasing"
  ELSE "stable"

\* calculateLanguageGrowth(dailyStats, year): the languages enter the Map in
\* the order aggregateLanguageTimes meets them
calculateLanguageGrowth(dailyStats) ==
  LET langs == aggregateLanguageTimes(dailyStats)
      usage(lang) ==
        [month \in 0..11 |->
           SeqSum([i \in 1..Len(dailyStats) |->
                     IF dailyStats[i].date[2] - 1 = month
                     THEN Get(dailyStats[i].languageTime, lang) ELSE 0])]
      growthData ==
        [i \in 1..Len(langs) |->
           The({[languageId |-> langs[i].key, monthlyUsage |-> monthlyUsage,
                 trend |-> Trend(SeqSum([m \in 1..6 |-> monthlyUsage[m - 1]]),
                                 SeqSum([m \in 1..6 |-> monthlyUsage[m + 5]])),
                 totalTimeMs |-> SeqSum([m \in 1..12 |-> monthlyUsage[m - 1]])] :
                monthlyUsage \in {usage(langs[i].key)}})]
  IN Slice(SortByTimeDesc(growthData), 10)

\* --------------------------------------------------------- CodingStyleService
\* Times are counted in units of 30 minutes.

\* styles.push({ id, ... }) under its if
PushIf(styles, condition, id) == IF condition THEN Append(styles, id) ELSE styles

\* calculateTimeRange(hourlyDistribution, startHour, endHour)
calculateTimeRange(hourlyDistribution, startHour, endHour) ==
  SeqSum([i \in 1..(endHour - startHour + 1) |-> hourlyDistribution[startHour + i - 1]])

\* calculateWeekdayTime(dayOfWeekDistribution)
calculateWeekdayTime(dayOfWeekDistribution) ==
  SeqSum([i \in 1..5 |-> dayOfWeekDistribution[i]])

\* calculateWeekendTime(dayOfWeekDistribution)
calculateWeekendTime(dayOfWeekDistribution) ==
  dayOfWeekDistribution[0] + dayOfWeekDistribution[6]

\* detectTimeStyles(summary, styles): steady_coder, marathon_runner, sprinter.
\* avgSessionMinutes is the mean of the days' longest sessions, where positive.
detectTimeStyles(summary, styles) ==
  LET activeDays == Len(ActiveDays(summary.dailyBreakdown))
      totalDays == Len(summary.dailyBreakdown)
      sessions == SelectSeq(summary.dailyBreakdown, LAMBDA d : d.longestSessionMs > 0)
      sessionSum == SeqSum([i \in 1..Len(sessions) |-> sessions[i].longestSessionMs])
      s1 == PushIf(styles, totalDays > 0 /\ 10 * activeDays >= 7 * totalDays, "steady_coder")
      s2 == PushIf(s1, summary.longestSessionMs >= 3 * HourMs, "marathon_runner")
  IN PushIf(s2, Len(sessions) > 0 /\ sessionSum > 0 /\ 2 * sessionSum <= HourMs * Len(sessions)
                /\ activeDays >= 3, "sprinter")

\* detectRhythmStyles(summary, styles): night_owl, early_bird, weekday_coder,
\* weekend_warrior
detectRhythmStyles(summary, styles) ==
  LET morningTime == calculateTimeRange(summary.hourlyDistribution, 6, 9)
      totalTime == calculateTimeRange(summary.hourlyDistribution, 0, 23)
      weekdayTime == calculateWeekdayTime(summary.dayOfWeekDistribution)
      weekendTime == calculateWeekendTime(summary.dayOfWeekDistribution)
      totalWeekTime == weekdayTime + weekendTime
      s1 == PushIf(styles, AtLeast(summary.nightOwlPercentage, 30), "night_owl")
      s2 == PushIf(s1, totalTime > 0 /\ 10 * morningTime >= 2 * totalTime, "early_bird")
      s3 == PushIf(s2, totalWeekTime > 0 /\ 100 * weekdayTime >= 85 * totalWeekTime,
                   "weekday_coder")
  IN PushIf(s3, totalWeekTime > 0 /\ 100 * weekendTime >= 25 * totalWeekTime,
            "weekend_warrior")

\* detectFocusStyles(summary, styles): deep_focus, multi_tasker, file_explorer
detectFocusStyles(summary, styles) ==
  LET activeProjects == SelectSeq(summary.topProjects, LAMBDA p : AtLeast(p.percentage, 15))
      s1 == PushIf(styles, Len(summary.topProjects) > 0
                           /\ AtLeast(summary.topProjects[1].percentage, 70), "deep_focus")
      s2 == PushIf(s1, Len(activeProjects) >= 3, "multi_tasker")
  IN PushIf(s2, summary.totalFilesEdited >= 50, "file_explorer")

\* detectExplorationStyles(summary, styles): language_explorer, specialist,
\* consistent
detectExplorationStyles(summary, styles) ==
  LET usedLanguages == SelectSeq(summary.topLanguages, LAMBDA l : AtLeast(l.percentage, 5))
      s1 == PushIf(styles, Len(usedLanguages) >= 4, "language_explorer")
      s2 == PushIf(s1, Len(summary.topLanguages) > 0
                       /\ AtLeast(summary.topLanguages[1].percentage, 80), "specialist")
  IN PushIf(s2, summary.streakDays >= 5, "consistent")

\* detectStyles with the exploration styles ahead of the focus styles.
detectStyles_explorationFirst(summary) ==
  Slice(detectFocusStyles(summary,
          detectExplorationStyles(summary,
            detectRhythmStyles(summary, detectTimeStyles(summary, <<>>)))), 5)

\* detectStyles(summary)
detectStyles(summary) ==
  Slice(detectExplorationStyles(summary,
          detectFocusStyles(summary,
            detectRhythmStyles(summary, detectTimeStyles(summary, <<>>)))), 5)

\* checkQuarterlyActivity(monthlyBreakdown).allActive
checkQuarterlyActivity(monthlyBreakdown) ==
  \A q \in 0..3 :
    \E i \in 1..Len(monthlyBreakdown) :
      /\ monthlyBreakdown[i].month >= 3 * q + 1
      /\ monthlyBreakdown[i].month <= 3 * q + 3
      /\ monthlyBreakdown[i].totalTimeMs > 0

\* detectYearlyExclusiveStyles(summary, styles): annual_champion, growth_star,
\* seasonal_master, project_architect, code_explorer
detectYearlyExclusiveStyles(summary, styles) ==
  LET newLanguages ==
        SelectSeq(summary.languageGrowth,
                  LAMBDA l : /\ SeqSum([m \in 1..6 |-> l.monthlyUsage[m - 1]]) = 0
                             /\ SeqSum([m \in 1..6 |-> l.monthlyUsage[m + 5]]) > 0)
      s1 == PushIf(styles, summary.totalCodingTimeMs >= 500 * HourMs, "annual_champion")
      s2 == PushIf(s1, Len(newLanguages) >= 3, "growth_star")
      s3 == PushIf(s2, checkQuarterlyActivity(summary.monthlyBreakdown), "seasonal_master")
      s4 == PushIf(s3, Len(summary.topProjects) >= 10, "project_architect")
  IN PushIf(s4, summary.totalFilesEdited >= 1000, "code_explorer")

\* detectMasterStyles(summary, styles): the stricter variants, named as the
\* observations they escalate
detectMasterStyles(summary, styles) ==
  LET activeDays == Len(ActiveDays(summary.dailyBreakdown))
      morningTime == calculateTimeRange(summary.hourlyDistribution, 6, 9)
      totalTime == calculateTimeRange(summary.hourlyDistribution, 0, 23)
      usedLanguages == SelectSeq(summary.topLanguages, LAMBDA l : AtLeast(l.percentage, 5))
      activeProjects == SelectSeq(summary.topProjects, LAMBDA p : AtLeast(p.percentage, 15))
      s1 == PushIf(styles, activeDays >= 200, "steady_coder")
      s2 == PushIf(s1, summary.longestSessionMs >= 6 * HourMs, "marathon_runner")
      s3 == PushIf(s2, AtLeast(summary.nightOwlPercentage, 40), "night_owl")
      s4 == PushIf(s3, summary.streakDays >= 30, "consistent")
      s5 == PushIf(s4, totalTime > 0 /\ 10 * morningTime >= 3 * totalTime, "early_bird")
      s6 == PushIf(s5, Len(summary.topProjects) > 0
                       /\ AtLeast(summary.topProjects[1].percentage, 80), "deep_focus")
      s7 == PushIf(s6, Len(usedLanguages) >= 6, "language_explorer")
      s8 == PushIf(s7, Len(summary.topLanguages) > 0
                       /\ AtLeast(summary.topLanguages[1].percentage, 90), "specialist")
  IN PushIf(s8, Len(activeProjects) >= 5, "multi_tasker")

\* detectYearlyStyles with the cut of detectStyles.
detectYearlyStyles_capped(summary) ==
  Slice(detectMasterStyles(summary, detectYearlyExclusiveStyles(summary, <<>>)), 5)

\* detectYearlyStyles(summary)
detectYearlyStyles(summary) ==
  detectMasterStyles(summary, detectYearlyExclusiveStyles(summary, <<>>))

\* ------------------------------------------ StatisticsService: the summaries

\* The fields the three generators compute alike from the aggregates of their
\* range.
baseSummary(dailyStats) ==
  The({[dailyBreakdown |-> dailyStats,
        topProjects |-> calculateTopProjects(aggregateProjectTimes(dailyStats), total),
        topLanguages |-> calculateTopLanguages(aggregateLanguageTimes(dailyStats), total),
        longestSessionMs |-> findLongestSession(dailyStats),
        dayOfWeekDistribution |-> calculateDayOfWeekDistribution(dailyStats),
        hourlyDistribution |-> aggregateHourlyDistribution(dailyStats),
        nightOwlTimeMs |-> night,
        nightOwlPercentage |-> Percentage(night, total),
        totalFilesEdited |-> SeqSum([i \in 1..Len(dailyStats) |-> dailyStats[i].editedFileCount])] :
       total \in {SumTotalTime(dailyStats)},
       night \in {SeqSum([i \in 1..Len(dailyStats) |-> dailyStats[i].nightOwlTimeMs])}})

\* { ...baseSummary, codingStyles }
WithStyles(summary, codingStyles) == summary @@ [codingStyles |-> codingStyles]

\* generateMock...Summary(offset): a canned summary
MockSummary(periodType, offset) == [periodType |-> periodType, mock |-> TRUE]

\* generateWeeklySummary that builds a summary whatever the total.
generateWeeklySummary_noNullCheck(c, td, mock, weekOffset) ==
  IF mock THEN MockSummary("week", weekOffset)
  ELSE LET bounds == getWeekBounds(td, weekOffset)
           dailyStats == getStatsRange(c, bounds.start, bounds.end)
       IN [periodType |-> "week", mock |-> FALSE,
           weekStartDate |-> bounds.start, weekEndDate |-> bounds.end,
           totalCodingTimeMs |-> SumTotalTime(dailyStats),
           streakDays |-> calculateStreak(dailyStats)]

\* generateWeeklySummary(weekOffset)
generateWeeklySummary(c, td, mock, weekOffset) ==
  IF mock THEN MockSummary("week", weekOffset)
  ELSE LET bounds == getWeekBounds(td, weekOffset)
           dailyStats == getStatsRange(c, bounds.start, bounds.end)
           totalTime == SumTotalTime(dailyStats)
       IN IF totalTime = 0 THEN Null
          ELSE [periodType |-> "week", mock |-> FALSE,
                weekStartDate |-> bounds.start, weekEndDate |-> bounds.end,
                totalCodingTimeMs |-> SumTotalTime(dailyStats),
                streakDays |-> calculateStreak(dailyStats)] @@ baseSummary(dailyStats)

\* generateMonthlySummary(monthOffset)
generateMonthlySummary(c, td, mock, monthOffset) ==
  IF mock THEN MockSummary("month", monthOffset)
  ELSE LET bounds == getMonthBounds(td, monthOffset)
           dailyStats == getStatsRange(c, bounds.start, bounds.end)
           totalTime == SumTotalTime(dailyStats)
       IN IF totalTime = 0 THEN Null
          ELSE The({WithStyles(summary, detectStyles(summary)) :
                    summary \in {[periodType |-> "month", mock |-> FALSE,
                                  weekStartDate |-> bounds.start, weekEndDate |-> bounds.end,
                                  totalCodingTimeMs |-> SumTotalTime(dailyStats),
                                  streakDays |-> calculateStreak(dailyStats),
                                  weeklyBreakdown |-> calculateWeeklyBreakdown(dailyStats)]
                                 @@ baseSummary(dailyStats)}})

\* generateYearlySummary(yearOffset)
generateYearlySummary(c, td, mock, yearOffset) ==
  IF mock THEN MockSummary("year", yearOffset)
  ELSE IF ~isDecember(td) /\ yearOffset = 0 THEN Null
  ELSE LET bounds == getYearBounds(td, yearOffset)
           dailyStats == getStatsRange(c, bounds.start, bounds.end)
           totalTime == SumTotalTime(dailyStats)
       IN IF totalTime = 0 THEN Null
          ELSE The({WithStyles(summary, detectYearlyStyles(summary)) :
                    summary \in {[periodType |-> "year", mock |-> FALSE, year |-> bounds.year,
                                  weekStartDate |-> bounds.start, weekEndDate |-> bounds.end,
                                  totalCodingTimeMs |-> SumTotalTime(dailyStats),
                                  streakDays |-> calculateStreak(dailyStats),
                                  monthlyBreakdown |-> calculateMonthlyBreakdown(dailyStats),
                                  longestStreakInYear |-> calculateLongestStreak(dailyStats),
                                  languageGrowth |-> calculateLanguageGrowth(dailyStats)]
                                 @@ baseSummary(dailyStats)}})

\* WebviewProvider.getSummaryForCurrentPeriod(): the generator of the period type
getSummaryForCurrentPeriod(c, td, mock, periodType, offset) ==
  IF periodType = "month" THEN generateMonthlySummary(c, td, mock, offset)
  ELSE IF periodType = "year" THEN generateYearlySummary(c, td, mock, offset)
  ELSE generateWeeklySummary(c, td, mock, offset)

\* ------------------------------------------------------------------- state

VARIABLES
  \* the host: Date.now() in timer periods, the local date and hour, and
  \* vscode.window.activeTextEditor
  now, today, hour, activeTextEditor,
  \* ActivityDetector
  lastActivityTime, idleTimeoutMs,
  \* TimeTracker
  isTracking, currentSession, lastUpdateTime, lastSessionInfo, editedFiles,
  updateInterval, uuidCount,
  \* StorageService: the in-memory cache and the value held by globalState
  cache, globalState,
  \* StatisticsService
  useMockData,
  \* the async functions suspended at an awaited write, oldest first: the
  \* listener each belongs to and what it has left to do
  inFlight,
  \* the last importData / generate...Summary call: its arguments and result
  lastCall

hostVars == <<now, today, hour, activeTextEditor>>
trackerVars ==
  <<lastActivityTime, idleTimeoutMs, isTracking, currentSession, lastUpdateTime,
    lastSessionInfo, editedFiles, updateInterval, uuidCount>>
storeVars == <<cache, globalState>>
vars == <<hostVars, trackerVars, storeVars, useMockData, inFlight, lastCall>>

\* The editors (documents with their workspace folder) the host may show.
EditorA == [fileName |-> "a.ts", languageId |-> "ts", workspaceName |-> "P1", workspacePath |-> "/P1"]
EditorB == [fileName |-> "b.ts", languageId |-> "ts", workspaceName |-> "P1", workspacePath |-> "/P1"]
EditorC == [fileName |-> "c.py", languageId |-> "py", workspaceName |-> "P2", workspacePath |-> "/P2"]
Editors == {EditorA, EditorC}

NoCall == [op |-> "none", n |-> 0]

\* ------------------------------------------- ActivityDetector / TimeTracker

\* The tracker, its detector and the store as one value m; the handlers below
\* map m to the value after the handler.  m.flushes and m.ended list what the
\* running handler has flushed and which sessions it has ended.  m.failures is
\* the number of leading writes globalState.update rejects in each persist,
\* m.durable the value globalState holds, m.threw whether the running async
\* function has thrown (the rest of its body is then skipped), m.warnings the
\* error messages shown and m.unhandled the rejected promises nobody awaits.
Machine ==
  [lastActivityTime |-> lastActivityTime, idleTimeoutMs |-> idleTimeoutMs,
   isTracking |-> isTracking, currentSession |-> currentSession,
   lastUpdateTime |-> lastUpdateTime, lastSessionInfo |-> lastSessionInfo,
   editedFiles |-> editedFiles, updateInterval |-> updateInterval,
   uuidCount |-> uuidCount, cache |-> cache, flushes |-> <<>>, ended |-> <<>>,
   durable |-> globalState, failures |-> 0, threw |-> FALSE, warnings |-> 0,
   unhandled |-> 0]

\* A timestamp in a field that holds a number or null (Session.endTime).
Stamp(t) == [ms |-> t]


\* The tracker when the first f writes of every persist are rejected.
MachineF(f) == [Machine EXCEPT !.failures = f]

\* getOrCreateTodayStats() with its persist().catch(...): a new aggregate is
\* written at once, a failure of that write is logged and goes no further.
GetOrCreate(before) ==
  The({ IF getDailyStats(m.cache, today) # Null THEN m
        ELSE The({ The({ [m EXCEPT !.cache = c1, !.durable = p.durable,
                                   !.warnings = @ + (IF p.warned THEN 1 ELSE 0)]
                         : p \in {persist(c1, m.durable, m.failures)} })
                   : c1 \in {getOrCreateTodayStats(m.cache, today)} })
        : m \in {before} })

\* A mutator of the store that the caller awaits: c1 is the cache it leaves,
\* and the throw of its persist reaches the caller.
Awaited(before, cache1) ==
  The({ The({ [m0 EXCEPT !.cache = c1, !.durable = p.durable,
                         !.warnings = @ + (IF p.warned THEN 1 ELSE 0),
                         !.threw = p.threw]
              : p \in {persist(c1, m0.durable, m0.failures)} })
        : m0 \in {GetOrCreate(before)}, c1 \in {cache1} })

\* A mutator of the store that the caller does not await: the rejection of
\* its promise is handled by nobody.
Floating(before, cache1) ==
  The({ The({ [m0 EXCEPT !.cache = c1, !.durable = p.durable,
                         !.warnings = @ + (IF p.warned THEN 1 ELSE 0),
                         !.unhandled = @ + (IF p.threw THEN 1 ELSE 0)]
              : p \in {persist(c1, m0.durable, m0.failures)} })
        : m0 \in {GetOrCreate(before)}, c1 \in {cache1} })

\* ActivityDetector.recordActivity()
recordActivity(m) == [m EXCEPT !.lastActivityTime = now]

\* The idle test without its special case for a timeout of 0.
isIdle_noZeroCheck(m) == now - m.lastActivityTime > m.idleTimeoutMs

\* The idle test that fires as soon as the timeout is reached.
isIdle_nonStrict(m) ==
  IF m.idleTimeoutMs = 0 THEN FALSE
  ELSE now - m.lastActivityTime >= m.idleTimeoutMs

\* ActivityDetector.isIdle()
isIdle(m) ==
  IF m.idleTimeoutMs = 0 THEN FALSE
  ELSE now - m.lastActivityTime > m.idleTimeoutMs

\* ActivityDetector.setIdleTimeout(ms)
setIdleTimeout(m, ms) == [m EXCEPT !.idleTimeoutMs = ms]

\* TimeTracker.endCurrentSession(): endTime is set before the store is
\* called, the session is cleared after it
endCurrentSession(before) ==
  The({ IF m.threw \/ m.currentSession = Null THEN m
        ELSE LET ended == [m.currentSession EXCEPT !.endTime = Stamp(now)]
                 duration == ended.endTime.ms - ended.startTime
             IN The({ LET c1 == updateLongestSession(m0.cache, today, duration)
                      IN The({ IF m1.threw THEN [m1 EXCEPT !.currentSession = ended]
                               ELSE [m1 EXCEPT !.ended = Append(@, ended),
                                               !.currentSession = Null]
                               : m1 \in {IF c1 = m0.cache THEN m0 ELSE Awaited(m0, c1)} })
                      : m0 \in {GetOrCreate(m)} })
        : m \in {before} })

\* The flush keyed by the date the tracker was activated on.
saveSessionProgress_firstDate(before) ==
  The({ IF m.threw \/ m.currentSession = Null THEN m
        ELSE LET s == m.currentSession
                 duration == now - m.lastUpdateTime
                 date == <<2024, 12, 31>>
             IN The({ [Awaited(m1, recordFileTime(m1.cache, date, s.fileName, duration,
                                                  s.workspaceName))
                         EXCEPT !.lastUpdateTime = now]
                      : m1 \in {Awaited(m, recordSessionTime(m.cache, date, s, duration, hour,
                                                             isNightOwlHour(hour)))} })
        : m \in {before} })

\* The flush that leaves lastUpdateTime where it was.
saveSessionProgress_keepLastUpdate(before) ==
  The({ IF m.threw \/ m.currentSession = Null THEN m
        ELSE LET s == m.currentSession
                 duration == now - m.lastUpdateTime
             IN The({ Awaited(m1, recordFileTime(m1.cache, today, s.fileName, duration,
                                                 s.workspaceName))
                      : m1 \in {Awaited(m, recordSessionTime(m.cache, today, s, duration, hour,
                                                             isNightOwlHour(hour)))} })
        : m \in {before} })

\* TimeTracker.saveSessionProgress()
saveSessionProgress(before) ==
  The({ IF m.threw \/ m.currentSession = Null THEN m
        ELSE LET s == m.currentSession
                 duration == now - m.lastUpdateTime
             IN The({ The({ IF m2.threw THEN m2
                            ELSE [m2 EXCEPT
                                    !.lastUpdateTime = now,
                                    !.flushes = Append(@, [fileName |-> s.fileName,
                                                           languageId |-> s.languageId,
                                                           workspacePath |-> s.workspacePath,
                                                           durationMs |-> duration,
                                                           date |-> today])]
                            : m2 \in {IF m1.threw THEN m1
                                      ELSE Awaited(m1, recordFileTime(m1.cache, today, s.fileName,
                                                                      duration, s.workspaceName))} })
                      : m1 \in {Awaited(m, recordSessionTime(m.cache, today, s, duration, hour,
                                                             isNightOwlHour(hour)))} })
        : m \in {before} })

\* TimeTracker.startNewSession(editor?)
startNewSession(before, editor) ==
  The({ LET sessionInfo == IF editor # Null THEN editor ELSE m1.lastSessionInfo
        IN IF m1.threw \/ sessionInfo = Null THEN m1
           ELSE recordActivity(
                  [m1 EXCEPT
                     !.lastSessionInfo = sessionInfo,
                     !.uuidCount = @ + 1,
                     !.currentSession =
                       [id |-> m1.uuidCount + 1, startTime |-> now, endTime |-> Null,
                        workspaceName |-> sessionInfo.workspaceName,
                        workspacePath |-> sessionInfo.workspacePath,
                        languageId |-> sessionInfo.languageId,
                        fileName |-> sessionInfo.fileName,
                        isActive |-> TRUE, charactersEdited |-> 0],
                     !.lastUpdateTime = now])
        : m1 \in {endCurrentSession(before)} })

\* TimeTracker.updateSessionInfo(editor)
updateSessionInfo(before, editor) ==
  The({ IF m.threw \/ m.currentSession = Null THEN m
        ELSE [m EXCEPT
                !.currentSession.languageId = editor.languageId,
                !.currentSession.fileName = editor.fileName,
                !.currentSession.workspaceName = editor.workspaceName,
                !.currentSession.workspacePath = editor.workspacePath,
                !.lastSessionInfo = editor]
        : m \in {before} })

\* TimeTracker.updateStatusBar(): reads (and so creates) today's aggregate
updateStatusBar(before) ==
  The({ IF m.threw THEN m ELSE GetOrCreate(m) : m \in {before} })

\* The tick that flushes before it ends an idle session.
periodicUpdate_flushThenEnd(m) ==
  IF ~m.isTracking THEN m
  ELSE IF isIdle(m) THEN endCurrentSession(saveSessionProgress(m))
  ELSE IF m.currentSession = Null
       THEN (IF activeTextEditor # Null \/ m.lastSessionInfo # Null
             THEN startNewSession(m, activeTextEditor) ELSE m)
  ELSE updateStatusBar(saveSessionProgress(m))

\* The tick that starts no session.
periodicUpdate_noResume(m) ==
  IF ~m.isTracking THEN m
  ELSE IF isIdle(m) THEN endCurrentSession(m)
  ELSE IF m.currentSession = Null THEN m
  ELSE updateStatusBar(saveSessionProgress(m))

\* TimeTracker.periodicUpdate()
periodicUpdate(m) ==
  IF ~m.isTracking THEN m
  ELSE IF isIdle(m) THEN endCurrentSession(m)
  ELSE IF m.currentSession = Null
       THEN (IF activeTextEditor # Null \/ m.lastSessionInfo # Null
             THEN startNewSession(m, activeTextEditor) ELSE m)
  ELSE updateStatusBar(saveSessionProgress(m))

\* handleEditorChange as far as the count of edited files: the activity is
\* recorded and a file seen for the first time is counted, the promise of
\* incrementEditedFileCount() not awaited.
CountEditedFile(m, editor) ==
  The({ IF editor.fileName \notin m1.editedFiles
        THEN Floating([m1 EXCEPT !.editedFiles = @ \cup {editor.fileName}],
                      incrementEditedFileCount(m1.cache, today))
        ELSE m1
        : m1 \in {recordActivity(m)} })

\* The editor-change handler that starts a new session for every new file.
handleEditorChange_restart(m, editor) ==
  IF ~m.isTracking THEN m
  ELSE IF editor = Null THEN recordActivity(m)
  ELSE The({ IF m2.currentSession # Null /\ m2.currentSession.fileName # editor.fileName
             THEN startNewSession(saveSessionProgress(m2), editor)
             ELSE IF m2.currentSession = Null THEN startNewSession(m2, editor)
             ELSE m2
             : m2 \in {CountEditedFile(m, editor)} })

\* The editor-change handler that flushes when the editor is lost.
handleEditorChange_flushOnLoss(m, editor) ==
  IF ~m.isTracking THEN m
  ELSE IF editor = Null THEN saveSessionProgress(recordActivity(m))
  ELSE The({ IF m2.currentSession # Null /\ m2.currentSession.fileName # editor.fileName
             THEN updateSessionInfo(saveSessionProgress(m2), editor)
             ELSE IF m2.currentSession = Null THEN startNewSession(m2, editor)
             ELSE m2
             : m2 \in {CountEditedFile(m, editor)} })

\* TimeTracker.handleEditorChange(editor | undefined)
handleEditorChange(m, editor) ==
  IF ~m.isTracking THEN m
  ELSE IF editor = Null THEN recordActivity(m)
  ELSE The({ IF m2.currentSession # Null /\ m2.currentSession.fileName # editor.fileName
             THEN updateSessionInfo(saveSessionProgress(m2), editor)
             ELSE IF m2.currentSession = Null THEN startNewSession(m2, editor)
             ELSE m2
             : m2 \in {CountEditedFile(m, editor)} })

\* TimeTracker.handleDocumentChange(event): scheme and the characters inserted
handleDocumentChange(m, scheme, changeSize) ==
  IF ~m.isTracking THEN m
  ELSE IF scheme \notin {"file", "untitled"} THEN m
  ELSE IF changeSize > 0
       THEN [Floating(recordActivity(m), recordCharactersEdited(m.cache, today, changeSize))
               EXCEPT !.currentSession =
                        IF @ # Null THEN [@ EXCEPT !.charactersEdited = @ + changeSize] ELSE @]
       ELSE recordActivity(m)

\* TimeTracker.handleWorkspaceChange()
handleWorkspaceChange(m) ==
  IF ~m.isTracking THEN m
  ELSE IF activeTextEditor # Null
       THEN startNewSession(saveSessionProgress(m), activeTextEditor)
       ELSE m

\* The focus-loss handler that ends the session after the flush.
pauseTracking_end(m) == endCurrentSession(saveSessionProgress(m))

\* TimeTracker.pauseTracking(): the window lost focus
pauseTracking(m) == saveSessionProgress(m)

\* The focus-gain handler that starts a session whether or not one is live.
resumeTracking_restart(m) ==
  The({ IF m1.threw THEN m1 ELSE recordActivity(m1)
        : m1 \in {IF m.isTracking /\ (activeTextEditor # Null \/ m.lastSessionInfo # Null)
                  THEN startNewSession(m, activeTextEditor)
                  ELSE m} })

\* TimeTracker.resumeTracking(): the window gained focus
resumeTracking(m) ==
  The({ IF m1.threw THEN m1 ELSE recordActivity(m1)
        : m1 \in {IF m.isTracking /\ m.currentSession = Null
                     /\ (activeTextEditor # Null \/ m.lastSessionInfo # Null)
                  THEN startNewSession(m, activeTextEditor)
                  ELSE m} })

\* startTracking that also starts a session from the last-known context.
startTracking_lastContext(m) ==
  IF m.isTracking THEN m
  ELSE updateStatusBar(
         [(IF activeTextEditor # Null \/ m.lastSessionInfo # Null
           THEN [startNewSession([m EXCEPT !.isTracking = TRUE], activeTextEditor)
                   EXCEPT !.threw = FALSE]
           ELSE [m EXCEPT !.isTracking = TRUE])
            EXCEPT !.updateInterval = [next |-> now + 1]])

\* TimeTracker.startTracking(): setInterval(periodicUpdate, 30000) is one
\* period; a failure of startNewSession is caught and logged
startTracking(m) ==
  IF m.isTracking THEN m
  ELSE updateStatusBar(
         [(IF activeTextEditor # Null
           THEN [startNewSession([m EXCEPT !.isTracking = TRUE], activeTextEditor)
                   EXCEPT !.threw = FALSE]
           ELSE [m EXCEPT !.isTracking = TRUE])
            EXCEPT !.updateInterval = [next |-> now + 1]])

\* stopTracking without the final flush.
stopTracking_noFlush(m) ==
  IF ~m.isTracking THEN m
  ELSE The({ IF m2.threw THEN m2 ELSE [m2 EXCEPT !.updateInterval = Null]
             : m2 \in {IF m.currentSession # Null
                       THEN endCurrentSession([m EXCEPT !.isTracking = FALSE])
                       ELSE [m EXCEPT !.isTracking = FALSE]} })

\* TimeTracker.stopTracking()
stopTracking(m) ==
  IF ~m.isTracking THEN m
  ELSE The({ IF m2.threw THEN m2 ELSE [m2 EXCEPT !.updateInterval = Null]
             : m2 \in {IF m.currentSession # Null
                       THEN endCurrentSession(saveSessionProgress([m EXCEPT !.isTracking = FALSE]))
                       ELSE [m EXCEPT !.isTracking = FALSE]} })

\* ------------------------------------------------------ the tracker at work

\* The values a handler leaves behind.
Apply(after) ==
  \E m \in {after} :
    /\ m.uuidCount <= MaxSessions
    /\ lastActivityTime' = m.lastActivityTime
    /\ idleTimeoutMs' = m.idleTimeoutMs
    /\ isTracking' = m.isTracking
    /\ currentSession' = m.currentSession
    /\ lastUpdateTime' = m.lastUpdateTime
    /\ lastSessionInfo' = m.lastSessionInfo
    /\ editedFiles' = m.editedFiles
    /\ updateInterval' = m.updateInterval
    /\ uuidCount' = m.uuidCount
    /\ cache' = m.cache
    /\ globalState' = m.durable

\* Date.now() moves on by one timer period; a due timer callback runs first.
AdvanceTime ==
  /\ now < MaxTime
  /\ updateInterval # Null => now < updateInterval.next
  /\ now' = now + 1
  /\ UNCHANGED <<today, hour, activeTextEditor, trackerVars, storeVars, useMockData, inFlight, lastCall>>

\* The setInterval callback.
Tick ==
  /\ updateInterval # Null
  /\ now = updateInterval.next
  /\ Apply([periodicUpdate(Machine) EXCEPT !.updateInterval = [next |-> now + 1]])
  /\ UNCHANGED <<hostVars, useMockData, inFlight, lastCall>>

StartTracking ==
  /\ Apply(startTracking(Machine))
  /\ UNCHANGED <<hostVars, useMockData, inFlight, lastCall>>

StopTracking ==
  /\ Apply(stopTracking(Machine))
  /\ UNCHANGED <<hostVars, useMockData, inFlight, lastCall>>

\* onDidChangeActiveTextEditor(editor)
EditorChange ==
  \E editor \in Editors \cup {Null} :
    /\ editor # activeTextEditor
    /\ activeTextEditor' = editor
    /\ Apply(handleEditorChange(Machine, editor))
    /\ UNCHANGED <<now, today, hour, useMockData, inFlight, lastCall>>

\* onDidChangeTextDocument(event)
DocumentChange ==
  \E scheme \in {"file", "output"}, changeSize \in 0..1 :
    /\ changeSize > 0 =>
         \A d \in DOMAIN cache.dailyStats : cache.dailyStats[d].totalCharactersEdited < MaxChars
    /\ Apply(handleDocumentChange(Machine, scheme, changeSize))
    /\ UNCHANGED <<hostVars, useMockData, inFlight, lastCall>>

\* onDidChangeTextEditorSelection, onDidChangeActiveTerminal, onDidOpenTerminal,
\* onDidCloseTerminal
SelectionOrTerminal ==
  /\ Apply(recordActivity(Machine))
  /\ UNCHANGED <<hostVars, useMockData, inFlight, lastCall>>

\* onDidChangeWindowState(state)
WindowState ==
  \E focused \in BOOLEAN :
    /\ Apply(IF focused THEN resumeTracking(Machine) ELSE pauseTracking(Machine))
    /\ UNCHANGED <<hostVars, useMockData, inFlight, lastCall>>

\* onDidChangeWorkspaceFolders()
WorkspaceFoldersChange ==
  /\ Apply(handleWorkspaceChange(Machine))
  /\ UNCHANGED <<hostVars, useMockData, inFlight, lastCall>>

\* TimeTracker.updateIdleTimeout(timeoutMs)
UpdateIdleTimeout ==
  \E ms \in 0..MaxTimeout :
    /\ ms # idleTimeoutMs
    /\ Apply(setIdleTimeout(Machine, ms))
    /\ UNCHANGED <<hostVars, useMockData, inFlight, lastCall>>

\* After activate(): the store initialised with the default schema, the
\* tracker constructed on its settings, tracking not yet started.
Init ==
  /\ now = 0
  /\ today = <<2024, 12, 31>>
  /\ hour = 23
  /\ activeTextEditor \in {Null, EditorA}
  /\ lastActivityTime = 0
  /\ idleTimeoutMs = getSettings(getDefaultSchema).idleTimeoutMs
  /\ isTracking = FALSE
  /\ currentSession = Null
  /\ lastUpdateTime = 0
  /\ lastSessionInfo = Null
  /\ editedFiles = {}
  /\ updateInterval = Null
  /\ uuidCount = 0
  /\ cache = getDefaultSchema
  /\ globalState = getDefaultSchema
  /\ useMockData = FALSE
  /\ inFlight = <<>>
  /\ lastCall = NoCall

Next ==
  \/ AdvanceTime
  \/ Tick
  \/ StartTracking
  \/ StopTracking
  \/ EditorChange
  \/ DocumentChange
  \/ SelectionOrTerminal
  \/ WindowState
  \/ WorkspaceFoldersChange
  \/ UpdateIdleTimeout

Spec == Init /\ [][Next]_vars

\* ------------------------------------------------- properties of the tracker

\* Today's aggregate as a reader sees it: a date never written reads as empty.
StatsOf(c, date) ==
  IF date \in DOMAIN c.dailyStats THEN c.dailyStats[date] ELSE createEmptyDailyStats(date)

\* A step in which onDidChangeActiveTextEditor delivers a file other than the
\* live session's while tracking.
C1_Switch ==
  /\ activeTextEditor' # activeTextEditor
  /\ activeTextEditor' # Null
  /\ isTracking
  /\ currentSession # Null
  /\ currentSession.fileName # activeTextEditor'.fileName

C1_Effect ==
  LET a == currentSession
      b == activeTextEditor'
      elapsed == now - lastUpdateTime
      before == StatsOf(cache, today)
      after == StatsOf(cache', today)
  IN /\ currentSession' # Null
     /\ currentSession'.id = a.id
     /\ currentSession'.startTime = a.startTime
     /\ currentSession'.endTime = Null
     \* one flush, of the elapsed time, to the labels of a
     /\ after.totalTimeMs = before.totalTimeMs + elapsed
     /\ Get(after.languageTime, a.languageId) = Get(before.languageTime, a.languageId) + elapsed
     /\ Get(after.projectTime, a.workspacePath) = Get(before.projectTime, a.workspacePath) + elapsed
     /\ Get(after.fileTimeMs, a.fileName) = Get(before.fileTimeMs, a.fileName) + elapsed
     /\ Get(after.fileTimeMs, b.fileName) = Get(before.fileTimeMs, b.fileName)
     /\ MapSum(after.languageTime) = MapSum(before.languageTime) + elapsed
     /\ MapSum(after.projectTime) = MapSum(before.projectTime) + elapsed
     /\ MapSum(after.fileTimeMs) = MapSum(before.fileTimeMs) + elapsed
     /\ lastUpdateTime' = now
     \* and the session now carries the labels of b
     /\ currentSession'.fileName = b.fileName
     /\ currentSession'.languageId = b.languageId
     /\ currentSession'.workspaceName = b.workspaceName
     /\ currentSession'.workspacePath = b.workspacePath

\* C1: while tracking with a live session, an editor change from file a to a
\* different file b keeps the session's id and startTime, flushes exactly once
\* (the time since the last flush goes to a's language, project and file
\* buckets, nothing to b's), and relabels the session to b.
C1_SwitchKeepsSession == [][C1_Switch => C1_Effect]_vars

\* The first session, started on a.ts, now labelled c.py, with time on a.ts
\* flushed by the switch and none yet on c.py.
C1_Witness ==
  /\ isTracking
  /\ currentSession # Null
  /\ uuidCount = 1
  /\ currentSession.id = 1
  /\ currentSession.startTime = 0
  /\ currentSession.fileName = "c.py"
  /\ currentSession.languageId = "py"
  /\ now = 2
  /\ lastUpdateTime = 2
  /\ Get(StatsOf(cache, today).fileTimeMs, "a.ts") = 2
  /\ Get(StatsOf(cache, today).languageTime, "ts") = 2
  /\ "c.py" \notin DOMAIN StatsOf(cache, today).fileTimeMs

\* A step of the setInterval callback.
TickStep ==
  /\ updateInterval # Null
  /\ updateInterval' # Null
  /\ updateInterval'.next # updateInterval.next

\* C2: a periodic tick ends the live session exactly when the idle timeout T
\* is not 0 and now - lastActivityTime > T (strictly); with T = 0 no tick ends
\* a session from inactivity.
C2_TickEndsIffIdle ==
  [][TickStep /\ currentSession # Null =>
       ((currentSession' = Null) <=>
          (idleTimeoutMs # 0 /\ now - lastActivityTime > idleTimeoutMs))]_vars

\* The tick at lastActivity + T + 1 has ended the first session: the tick at
\* lastActivity + T flushed one period, the ending tick flushed nothing and
\* recorded the session's length.
C2_Witness ==
  /\ isTracking
  /\ currentSession = Null
  /\ uuidCount = 1
  /\ idleTimeoutMs = 1
  /\ lastActivityTime = 0
  /\ now = 2
  /\ updateInterval = [next |-> 3]
  /\ StatsOf(cache, today).totalTimeMs = 1
  /\ StatsOf(cache, today).longestSessionMs = 2

\* ------------------------------------------------- the handlers, one by one

\* Every handler leaves its name in lastCall and Date.now() stands still while
\* it runs, so a step with now' = now and lastCall'.op = h is a run of h.
\* The handler that ran last, when it ran, how many leading writes of each
\* persist were rejected while it ran, whether its promise was rejected, how
\* many promises it left rejected with nobody awaiting them, and how many
\* error messages it showed.
Log(op, m) ==
  lastCall' = [op |-> op, at |-> now, failures |-> m.failures, rejected |-> m.threw,
               unhandled |-> m.unhandled, warnings |-> m.warnings]

\* The time recorded in the store stays within the bound.
Bounded(m) ==
  MapSum([d \in DOMAIN m.cache.dailyStats |-> m.cache.dailyStats[d].totalTimeMs]) <= MaxStoreTotal

\* The setInterval callback: periodicUpdate()
EvTick(F) ==
  /\ updateInterval # Null
  /\ now = updateInterval.next
  /\ \E f \in F : \E m \in {periodicUpdate(MachineF(f))} :
       /\ Bounded(m)
       /\ Apply([m EXCEPT !.updateInterval = [next |-> now + 1]])
       /\ Log("periodicUpdate", m)
  /\ UNCHANGED <<hostVars, useMockData, inFlight>>

\* activate() calls startTracking()
EvStartTracking(F) ==
  /\ ~isTracking
  /\ \E f \in F : \E m \in {startTracking(MachineF(f))} :
       /\ Bounded(m)
       /\ Apply(m)
       /\ Log("startTracking", m)
  /\ UNCHANGED <<hostVars, useMockData, inFlight>>

\* deactivate() awaits disposeAsync(), which awaits stopTracking()
EvStopTracking(F) ==
  /\ isTracking
  /\ \E f \in F : \E m \in {stopTracking(MachineF(f))} :
       /\ Bounded(m)
       /\ Apply(m)
       /\ Log("stopTracking", m)
  /\ UNCHANGED <<hostVars, useMockData, inFlight>>

\* onDidChangeActiveTextEditor(editor)
EvEditorChange(F) ==
  \E f \in F, editor \in (Editors \cup {Null}) \ {activeTextEditor} :
    \E m \in {handleEditorChange(MachineF(f), editor)} :
      /\ activeTextEditor' = editor
      /\ Bounded(m)
      /\ Apply(m)
      /\ Log("handleEditorChange", m)
      /\ UNCHANGED <<now, today, hour, useMockData, inFlight>>

\* onDidChangeTextDocument(event)
EvDocumentChange(F) ==
  \E f \in F, scheme \in {"file", "output"}, changeSize \in 0..1 :
    /\ changeSize > 0 =>
         \A d \in DOMAIN cache.dailyStats : cache.dailyStats[d].totalCharactersEdited < MaxChars
    /\ \E m \in {handleDocumentChange(MachineF(f), scheme, changeSize)} :
         /\ Apply(m)
         /\ Log("handleDocumentChange", m)
    /\ UNCHANGED <<hostVars, useMockData, inFlight>>

\* onDidChangeTextEditorSelection, onDidChangeActiveTerminal, onDidOpenTerminal,
\* onDidCloseTerminal
EvSelectionOrTerminal ==
  \E m \in {recordActivity(Machine)} :
    /\ Apply(m)
    /\ Log("recordActivity", m)
    /\ UNCHANGED <<hostVars, useMockData, inFlight>>

\* onDidChangeWindowState(state)
EvWindowState(F) ==
  \E f \in F, focused \in BOOLEAN :
    \E m \in {IF focused THEN resumeTracking(MachineF(f)) ELSE pauseTracking(MachineF(f))} :
      /\ Bounded(m)
      /\ Apply(m)
      /\ Log(IF focused THEN "resumeTracking" ELSE "pauseTracking", m)
      /\ UNCHANGED <<hostVars, useMockData, inFlight>>

\* onDidChangeWorkspaceFolders()
EvWorkspaceFoldersChange(F) ==
  \E f \in F : \E m \in {handleWorkspaceChange(MachineF(f))} :
    /\ Bounded(m)
    /\ Apply(m)
    /\ Log("handleWorkspaceChange", m)
    /\ UNCHANGED <<hostVars, useMockData, inFlight>>

\* After activate() with a store whose idle timeout setting is one timer
\* period: the tracker constructed on it, tracking not yet started.
InitEvents ==
  /\ now = 0
  /\ today = <<2024, 12, 31>>
  /\ hour = 23
  /\ activeTextEditor \in {Null, EditorA}
  /\ lastActivityTime = 0
  /\ cache = [getDefaultSchema EXCEPT !.settings.idleTimeoutMs = 1]
  /\ idleTimeoutMs = getSettings(cache).idleTimeoutMs
  /\ isTracking = FALSE
  /\ currentSession = Null
  /\ lastUpdateTime = 0
  /\ lastSessionInfo = Null
  /\ editedFiles = {}
  /\ updateInterval = Null
  /\ uuidCount = 0
  /\ globalState = cache
  /\ useMockData = FALSE
  /\ inFlight = <<>>
  /\ lastCall = NoCall

\* Every write to the store succeeds.
NextEvents ==
  \/ AdvanceTime
  \/ EvTick({0})
  \/ EvStartTracking({0})
  \/ EvStopTracking({0})
  \/ EvEditorChange({0})
  \/ EvDocumentChange({0})
  \/ EvSelectionOrTerminal
  \/ EvWindowState({0})
  \/ EvWorkspaceFoldersChange({0})

SpecEvents == InitEvents /\ [][NextEvents]_vars

\* The step is one flush of the time d to the labels of session s: d more in
\* today's total, in the language, project and file buckets of s, in the
\* bucket of the current hour and (at night) in the night-owl time, and
\* nothing in any other bucket.
FlushOf(s, d) ==
  LET before == StatsOf(cache, today)
      after == StatsOf(cache', today)
  IN /\ after.totalTimeMs = before.totalTimeMs + d
     /\ Get(after.languageTime, s.languageId) = Get(before.languageTime, s.languageId) + d
     /\ MapSum(after.languageTime) = MapSum(before.languageTime) + d
     /\ Get(after.projectTime, s.workspacePath) = Get(before.projectTime, s.workspacePath) + d
     /\ MapSum(after.projectTime) = MapSum(before.projectTime) + d
     /\ Get(after.fileTimeMs, s.fileName) = Get(before.fileTimeMs, s.fileName) + d
     /\ MapSum(after.fileTimeMs) = MapSum(before.fileTimeMs) + d
     /\ after.hourlyDistribution[hour] = before.hourlyDistribution[hour] + d
     /\ MapSum(after.hourlyDistribution) = MapSum(before.hourlyDistribution) + d
     /\ after.nightOwlTimeMs = before.nightOwlTimeMs + (IF isNightOwlHour(hour) THEN d ELSE 0)
     /\ \A x \in DOMAIN cache.dailyStats \ {today} :
          x \in DOMAIN cache'.dailyStats /\ cache'.dailyStats[x] = cache.dailyStats[x]

\* A step in which the window loses focus while a session is live: the
\* handler is one call of saveSessionProgress.
C11_FlushCall ==
  /\ now' = now
  /\ lastCall'.op = "pauseTracking"
  /\ currentSession # Null

\* C11: a call of saveSessionProgress adds the time since the last flush to
\* every bucket exactly once and moves lastUpdateTime to now, so that a second
\* call with no time elapsed since a flush adds zero to every bucket
\* (totalTimeMs, languageTime, projectTime, fileTimeMs, hourlyDistribution,
\* nightOwlTimeMs).
C11_FlushIdempotent ==
  [][C11_FlushCall =>
       /\ FlushOf(currentSession, now - lastUpdateTime)
       /\ lastUpdateTime' = now
       /\ lastUpdateTime = now => FlushOf(currentSession, 0)]_vars

\* At t = 1 the editor went from a.ts to c.py, which flushed one period to
\* a.ts, and then the window lost focus: the second flush credited c.py with
\* zero.
C11_Witness ==
  /\ lastCall.op = "pauseTracking"
  /\ lastCall.at = 1
  /\ now = 1
  /\ lastUpdateTime = 1
  /\ currentSession # Null
  /\ currentSession.startTime = 0
  /\ currentSession.fileName = "c.py"
  /\ StatsOf(cache, today).totalTimeMs = 1
  /\ Get(StatsOf(cache, today).fileTimeMs, "a.ts") = 1
  /\ "c.py" \in DOMAIN StatsOf(cache, today).fileTimeMs
  /\ StatsOf(cache, today).fileTimeMs["c.py"] = 0
  /\ StatsOf(cache, today).nightOwlTimeMs = 1

\* A step that ends the live session or replaces it by another one.
C16_EndedOrReplaced ==
  /\ currentSession # Null
  /\ \/ currentSession' = Null
     \/ currentSession'.id # currentSession.id
     \/ currentSession'.startTime # currentSession.startTime

\* C16: a live session is ended or replaced only by a tick that finds the
\* tracker idle, by stopTracking, or by a workspace-folder change; no editor
\* change (to a file or to none), focus change, document edit, selection or
\* terminal activity, or tick that is not idle ends or replaces it.
C16_OnlyThreeEnds ==
  [][C16_EndedOrReplaced =>
       \/ /\ lastCall'.op = "periodicUpdate"
          /\ idleTimeoutMs # 0
          /\ now - lastActivityTime > idleTimeoutMs
       \/ lastCall'.op = "stopTracking"
       \/ lastCall'.op = "handleWorkspaceChange"]_vars

\* The first session, started at t = 0 on a.ts, is still live at t = 2 after
\* a file switch, an edit, the loss of the editor and a focus loss.
C16_Witness ==
  /\ lastCall.op = "pauseTracking"
  /\ lastCall.at = 2
  /\ now = 2
  /\ activeTextEditor = Null
  /\ uuidCount = 1
  /\ currentSession # Null
  /\ currentSession.id = 1
  /\ currentSession.startTime = 0
  /\ currentSession.fileName = "c.py"
  /\ currentSession.charactersEdited = 1
  /\ StatsOf(cache, today).totalTimeMs = 2

\* C17: when the editor is lost (handleEditorChange with no editor) while
\* tracking, lastActivityTime becomes now and nothing else changes: the live
\* session, lastUpdateTime and every daily aggregate stay as they were, so no
\* flush is made.
C17_EditorLostOnlyActivity ==
  [][(now' = now /\ lastCall'.op = "handleEditorChange" /\ activeTextEditor' = Null
        /\ isTracking)
       => /\ lastActivityTime' = now
          /\ currentSession' = currentSession
          /\ lastUpdateTime' = lastUpdateTime
          /\ cache' = cache
          /\ globalState' = globalState
          /\ UNCHANGED <<isTracking, lastSessionInfo, editedFiles, updateInterval, uuidCount,
                         idleTimeoutMs>>]_vars

\* At t = 1, one period after the last flush, the editor was lost: the
\* session started at t = 0 is live and nothing has been flushed.
C17_Witness ==
  /\ lastCall.op = "handleEditorChange"
  /\ lastCall.at = 1
  /\ now = 1
  /\ activeTextEditor = Null
  /\ isTracking
  /\ lastActivityTime = 1
  /\ lastUpdateTime = 0
  /\ currentSession # Null
  /\ currentSession.id = 1
  /\ currentSession.fileName = "a.ts"
  /\ StatsOf(cache, today).totalTimeMs = 0

\* C18: a focus loss with a live session makes one flush of the time since
\* the last flush and leaves the session as it is (id, startTime and
\* attribution); while the last event is that focus loss, a tick that is not
\* idle goes on flushing the elapsed time to the same session.
C18_FocusLossFlushesOnly ==
  [][/\ (now' = now /\ lastCall'.op = "pauseTracking" /\ currentSession # Null)
          => /\ FlushOf(currentSession, now - lastUpdateTime)
             /\ lastUpdateTime' = now
             /\ currentSession' = currentSession
     /\ (now' = now /\ lastCall'.op = "periodicUpdate" /\ lastCall.op = "pauseTracking"
           /\ currentSession # Null /\ ~isIdle(Machine))
          => /\ FlushOf(currentSession, now - lastUpdateTime)
             /\ lastUpdateTime' = now
             /\ currentSession' = currentSession]_vars

\* The window lost focus at t = 1: one period was flushed to the session
\* started at t = 0, which is still live; the focus loss is not an activity.
C18_Witness ==
  /\ lastCall.op = "pauseTracking"
  /\ lastCall.at = 1
  /\ now = 1
  /\ lastUpdateTime = 1
  /\ lastActivityTime = 0
  /\ currentSession # Null
  /\ currentSession.id = 1
  /\ currentSession.startTime = 0
  /\ currentSession.endTime = Null
  /\ StatsOf(cache, today).totalTimeMs = 1
  /\ Get(StatsOf(cache, today).fileTimeMs, "a.ts") = 1
  /\ StatsOf(cache, today).longestSessionMs = 0

\* C19: a workspace-folder change while tracking with a live session flushes
\* the elapsed time to the old session's labels, ends the old session (its
\* length offered to longestSessionMs) and leaves a new session live, with
\* another id and startTime = now.
C19_WorkspaceChangeBreaks ==
  [][(now' = now /\ lastCall'.op = "handleWorkspaceChange" /\ isTracking
        /\ currentSession # Null)
       => /\ FlushOf(currentSession, now - lastUpdateTime)
          /\ StatsOf(cache', today).longestSessionMs =
               Max(StatsOf(cache, today).longestSessionMs, now - currentSession.startTime)
          /\ currentSession' # Null
          /\ currentSession'.id # currentSession.id
          /\ currentSession'.startTime = now
          /\ currentSession'.endTime = Null]_vars

\* The workspace folders changed at t = 1 while no editor was active: the
\* session started at t = 0 is still the live one and nothing was flushed.
C19_Witness ==
  /\ lastCall.op = "handleWorkspaceChange"
  /\ lastCall.at = 1
  /\ now = 1
  /\ activeTextEditor = Null
  /\ isTracking
  /\ uuidCount = 1
  /\ currentSession # Null
  /\ currentSession.id = 1
  /\ currentSession.startTime = 0
  /\ lastUpdateTime = 0
  /\ StatsOf(cache, today).totalTimeMs = 0
  /\ StatsOf(cache, today).longestSessionMs = 0

\* C20: stopTracking while tracking flushes the time since the last flush to
\* the live session, ends it (its length offered to longestSessionMs), clears
\* the timer and leaves isTracking false and no session; while the tracker
\* is stopped no event changes a daily aggregate, until startTracking.
C20_StopThenQuiet ==
  [][/\ (now' = now /\ lastCall'.op = "stopTracking" /\ isTracking)
          => /\ ~isTracking'
             /\ currentSession' = Null
             /\ updateInterval' = Null
             /\ currentSession # Null =>
                  /\ FlushOf(currentSession, now - lastUpdateTime)
                  /\ StatsOf(cache', today).longestSessionMs =
                       Max(StatsOf(cache, today).longestSessionMs,
                           now - currentSession.startTime)
             /\ currentSession = Null => cache' = cache
     /\ (~isTracking /\ lastCall'.op # "startTracking")
          => /\ cache'.dailyStats = cache.dailyStats
             /\ globalState'.dailyStats = globalState.dailyStats
             /\ ~isTracking'
             /\ currentSession' = Null
             /\ updateInterval' = Null]_vars

\* Stopped at t = 1 with one period flushed and a session of one period
\* ended; at t = 2 an edit arrived and changed nothing.
C20_Witness ==
  /\ lastCall.op = "handleDocumentChange"
  /\ lastCall.at = 2
  /\ now = 2
  /\ ~isTracking
  /\ currentSession = Null
  /\ updateInterval = Null
  /\ uuidCount = 1
  /\ StatsOf(cache, today).totalTimeMs = 1
  /\ StatsOf(cache, today).longestSessionMs = 1
  /\ StatsOf(cache, today).totalCharactersEdited = 0
  /\ globalState = cache

\* The buckets of an aggregate that hold time.
TimeBuckets(stats) ==
  [totalTimeMs |-> stats.totalTimeMs, activeTimeMs |-> stats.activeTimeMs,
   languageTime |-> stats.languageTime, projectTime |-> stats.projectTime,
   fileTimeMs |-> stats.fileTimeMs, hourlyDistribution |-> stats.hourlyDistribution,
   nightOwlTimeMs |-> stats.nightOwlTimeMs]

\* The step adds no time to any bucket of any date.
NoFlush ==
  \A d \in DOMAIN cache'.dailyStats :
    TimeBuckets(StatsOf(cache', d)) = TimeBuckets(StatsOf(cache, d))

\* The step leaves a session that was started in it: a new id, startTime and
\* lastUpdateTime = now, the labels of the editor or else of the last context.
NewSession ==
  LET info == IF activeTextEditor # Null THEN activeTextEditor ELSE lastSessionInfo
  IN /\ currentSession' # Null
     /\ currentSession'.id = uuidCount + 1
     /\ currentSession'.startTime = now
     /\ currentSession'.endTime = Null
     /\ currentSession'.fileName = info.fileName
     /\ currentSession'.languageId = info.languageId
     /\ currentSession'.workspacePath = info.workspacePath
     /\ lastUpdateTime' = now

\* C25: a tick while tracking does one of three things.  Detector idle: the
\* live session (if any) is ended, nothing is flushed, no session is started.
\* Else no live session: one is started if an editor or a last-known context
\* exists, and nothing is flushed.  Else: the time since the last flush is
\* flushed to the live session's labels.  periodicUpdate while not tracking
\* changes nothing.
C25_TickDoesOneThing ==
  [][/\ ~isTracking => periodicUpdate(Machine) = Machine
     /\ (now' = now /\ lastCall'.op = "periodicUpdate" /\ isTracking)
          => IF isIdle(Machine)
             THEN /\ currentSession' = Null
                  /\ NoFlush
                  /\ lastUpdateTime' = lastUpdateTime
                  /\ uuidCount' = uuidCount
                  /\ currentSession # Null =>
                       StatsOf(cache', today).longestSessionMs =
                         Max(StatsOf(cache, today).longestSessionMs,
                             now - currentSession.startTime)
             ELSE IF currentSession = Null
             THEN /\ NoFlush
                  /\ IF activeTextEditor # Null \/ lastSessionInfo # Null
                     THEN NewSession
                     ELSE currentSession' = Null /\ uuidCount' = uuidCount
             ELSE /\ FlushOf(currentSession, now - lastUpdateTime)
                  /\ currentSession' = currentSession
                  /\ lastUpdateTime' = now
                  /\ uuidCount' = uuidCount]_vars

\* The tick at t = 2 found the detector idle: the session started at t = 0
\* and flushed at t = 1 is ended with its length 2, and the period before the
\* tick is flushed nowhere.
C25_Witness ==
  /\ lastCall.op = "periodicUpdate"
  /\ lastCall.at = 2
  /\ now = 2
  /\ isTracking
  /\ currentSession = Null
  /\ uuidCount = 1
  /\ lastActivityTime = 0
  /\ lastUpdateTime = 1
  /\ StatsOf(cache, today).totalTimeMs = 1
  /\ StatsOf(cache, today).longestSessionMs = 2

\* C26: startTracking while stopped turns tracking on and arms the timer of
\* one period; a session is live afterwards exactly when an editor is active
\* at that moment (a last-known context alone starts none).  startTracking
\* while tracking changes nothing.
C26_StartTracking ==
  [][/\ isTracking => startTracking(Machine) = Machine
     /\ (now' = now /\ lastCall'.op = "startTracking" /\ ~isTracking)
          => /\ isTracking'
             /\ updateInterval' = [next |-> now + 1]
             /\ (currentSession' # Null) <=> (activeTextEditor # Null)
             /\ activeTextEditor # Null => NewSession
             /\ NoFlush]_vars

\* Started again at t = 1 after a stop, with no editor but with the context
\* of the first session known: tracking is on, the timer armed, no session.
C26_Witness ==
  /\ lastCall.op = "startTracking"
  /\ lastCall.at = 1
  /\ now = 1
  /\ isTracking
  /\ updateInterval = [next |-> 2]
  /\ activeTextEditor = Null
  /\ lastSessionInfo = EditorA
  /\ currentSession = Null
  /\ uuidCount = 1

\* C29: in every daily aggregate the tracker's flushes have produced the
\* per-file buckets add up to the day's total: sum(fileTimeMs) = totalTimeMs.
C29_FileTimeSumsToTotal ==
  \A d \in DOMAIN cache.dailyStats :
    MapSum(cache.dailyStats[d].fileTimeMs) = cache.dailyStats[d].totalTimeMs

\* Two files hold time: one period on a.ts, then one on c.py after a switch.
C29_Witness ==
  /\ Get(StatsOf(cache, today).fileTimeMs, "a.ts") = 1
  /\ Get(StatsOf(cache, today).fileTimeMs, "c.py") = 1
  /\ StatsOf(cache, today).totalTimeMs = 2
  /\ currentSession # Null
  /\ currentSession.id = 1
  /\ currentSession.fileName = "c.py"
  /\ lastUpdateTime = 2

\* ----------------------------------------------------- the tracker at midnight

\* Midnight passes: formatDate(new Date()) is the next date and getHours() 0.
Midnight ==
  /\ today = <<2024, 12, 31>>
  /\ today' = NextDate(today)
  /\ hour' = 0
  /\ UNCHANGED <<now, activeTextEditor, trackerVars, storeVars, useMockData, inFlight, lastCall>>

\* Every write to the store succeeds; the date changes once.
NextMidnight ==
  \/ AdvanceTime
  \/ Midnight
  \/ EvTick({0})
  \/ EvStartTracking({0})
  \/ EvStopTracking({0})
  \/ EvDocumentChange({0})
  \/ EvSelectionOrTerminal
  \/ EvWindowState({0})
  \/ EvWorkspaceFoldersChange({0})

SpecMidnight == InitEvents /\ [][NextMidnight]_vars

\* A step that flushes: a focus loss, a tick that is not idle, a stop or a
\* workspace change with an editor, each with a live session (the clock and
\* the date stand still while a handler runs).
C27_FlushStep ==
  /\ now' = now
  /\ today' = today
  /\ isTracking
  /\ currentSession # Null
  /\ \/ lastCall'.op = "pauseTracking"
     \/ lastCall'.op = "periodicUpdate" /\ ~isIdle(Machine)
     \/ lastCall'.op = "stopTracking"
     \/ lastCall'.op = "handleWorkspaceChange" /\ activeTextEditor # Null

\* C27: a flush adds its whole delta to the aggregate of the local date at
\* the moment of the flush and to the bucket of the hour of that moment,
\* whatever the date the session started on, and leaves the aggregates of
\* all other dates as they are.
C27_FlushKeyedByToday ==
  [][C27_FlushStep => FlushOf(currentSession, now - lastUpdateTime)]_vars

\* One session, started on 2024-12-31 at 23 h, has one period in the
\* aggregate of that date and one in the aggregate of 2025-01-01.
C27_Witness ==
  /\ today = <<2025, 1, 1>>
  /\ uuidCount = 1
  /\ currentSession # Null
  /\ currentSession.id = 1
  /\ currentSession.startTime = 0
  /\ lastUpdateTime = 2
  /\ StatsOf(cache, <<2024, 12, 31>>).totalTimeMs = 1
  /\ StatsOf(cache, <<2024, 12, 31>>).hourlyDistribution[23] = 1
  /\ StatsOf(cache, <<2025, 1, 1>>).totalTimeMs = 1
  /\ StatsOf(cache, <<2025, 1, 1>>).hourlyDistribution[0] = 1
  /\ Get(StatsOf(cache, <<2025, 1, 1>>).fileTimeMs, "a.ts") = 1

\* C28: for every date, longestSessionMs never decreases in a step of the
\* tracker; updateLongestSession writes only a strictly greater duration, and
\* the other mutators (flush, edit, file count) leave the field alone.
C28_LongestNeverDecreases ==
  [][/\ \A d \in DOMAIN cache.dailyStats :
          /\ d \in DOMAIN cache'.dailyStats
          /\ cache'.dailyStats[d].longestSessionMs >= cache.dailyStats[d].longestSessionMs
     /\ \A d \in DOMAIN cache.dailyStats, dur \in 0..MaxTime :
          /\ StatsOf(updateLongestSession(cache, d, dur), d).longestSessionMs =
               Max(cache.dailyStats[d].longestSessionMs, dur)
          /\ dur <= cache.dailyStats[d].longestSessionMs =>
               updateLongestSession(cache, d, dur) = cache
          /\ recordSessionTime(cache, d, [EditorA EXCEPT !.fileName = "a.ts"] @@ [isActive |-> TRUE],
                               dur, hour, isNightOwlHour(hour)).dailyStats[d].longestSessionMs
               = cache.dailyStats[d].longestSessionMs
          /\ recordFileTime(cache, d, "a.ts", dur, "P1").dailyStats[d].longestSessionMs
               = cache.dailyStats[d].longestSessionMs
          /\ recordCharactersEdited(cache, d, 1).dailyStats[d].longestSessionMs
               = cache.dailyStats[d].longestSessionMs
          /\ incrementEditedFileCount(cache, d).dailyStats[d].longestSessionMs
               = cache.dailyStats[d].longestSessionMs]_vars

\* The session started at t = 0 ended at t = 2 with length 2; the session
\* started then was stopped at once, and its length 0 left the 2 in place.
C28_Witness ==
  /\ lastCall.op = "stopTracking"
  /\ lastCall.at = 2
  /\ now = 2
  /\ uuidCount = 2
  /\ currentSession = Null
  /\ today = <<2024, 12, 31>>
  /\ StatsOf(cache, today).longestSessionMs = 2
  /\ StatsOf(cache, today).totalTimeMs = 2

\* C30: in every daily aggregate longestSessionMs <= totalTimeMs.
C30_LongestWithinTotal ==
  \A d \in DOMAIN cache.dailyStats :
    cache.dailyStats[d].longestSessionMs <= cache.dailyStats[d].totalTimeMs

\* A session started on 2024-12-31 was flushed once before midnight and once
\* at its stop after midnight: 2025-01-01 holds one period of time and a
\* longest session of two.
C30_Witness ==
  /\ lastCall.op = "stopTracking"
  /\ today = <<2025, 1, 1>>
  /\ uuidCount = 1
  /\ currentSession = Null
  /\ StatsOf(cache, <<2024, 12, 31>>).totalTimeMs = 1
  /\ StatsOf(cache, <<2024, 12, 31>>).longestSessionMs = 0
  /\ StatsOf(cache, <<2025, 1, 1>>).totalTimeMs = 1
  /\ StatsOf(cache, <<2025, 1, 1>>).longestSessionMs = 2

\* ------------------------------------- the tracker with a short idle timeout

\* Here one unit of time is half a timer period (15 s): the timer of
\* setInterval(..., 30000) fires every ShortPeriod units, and the idle timeout
\* setting is one unit (shorter than the period) or two (the period).

\* After activate() with a.ts in the editor and the idle timeout set.
InitShort ==
  /\ now = 0
  /\ today = <<2024, 12, 31>>
  /\ hour = 23
  /\ activeTextEditor = EditorA
  /\ lastActivityTime = 0
  /\ \E t \in 1..ShortPeriod : cache = [getDefaultSchema EXCEPT !.settings.idleTimeoutMs = t]
  /\ idleTimeoutMs = getSettings(cache).idleTimeoutMs
  /\ isTracking = FALSE
  /\ currentSession = Null
  /\ lastUpdateTime = 0
  /\ lastSessionInfo = Null
  /\ editedFiles = {}
  /\ updateInterval = Null
  /\ uuidCount = 0
  /\ globalState = cache
  /\ useMockData = FALSE
  /\ inFlight = <<>>
  /\ lastCall = NoCall

\* Date.now() moves on by half a timer period; a due timer callback runs first.
AdvanceTimeShort ==
  /\ now < MaxShortTime
  /\ updateInterval # Null => now < updateInterval.next
  /\ now' = now + 1
  /\ UNCHANGED <<today, hour, activeTextEditor, trackerVars, storeVars, useMockData, inFlight, lastCall>>

\* The setInterval callback: periodicUpdate(), due again one period later
EvTickShort ==
  /\ updateInterval # Null
  /\ now = updateInterval.next
  /\ \E m \in {periodicUpdate(Machine)} :
       /\ Bounded(m)
       /\ Apply([m EXCEPT !.updateInterval = [next |-> now + ShortPeriod]])
       /\ Log("periodicUpdate", m)
  /\ UNCHANGED <<hostVars, useMockData, inFlight>>

\* activate() calls startTracking(), which arms the timer of one period
EvStartTrackingShort ==
  /\ ~isTracking
  /\ \E m \in {startTracking(Machine)} :
       /\ Bounded(m)
       /\ Apply([m EXCEPT !.updateInterval = [next |-> now + ShortPeriod]])
       /\ Log("startTracking", m)
  /\ UNCHANGED <<hostVars, useMockData, inFlight>>

\* Tracking is started once and not stopped; the editor stays; every write to
\* the store succeeds.
NextShort ==
  \/ AdvanceTimeShort
  \/ EvTickShort
  \/ EvStartTrackingShort
  \/ EvDocumentChange({0})
  \/ EvSelectionOrTerminal
  \/ EvWindowState({0})

SpecShort == InitShort /\ [][NextShort]_vars

\* The session was ended by the idle timeout and none has been started since
\* (here tracking is never stopped and the editor never leaves).
EndedByIdle == isTracking /\ currentSession = Null /\ uuidCount >= 1

\* The step is the timer callback.
TimerStep == now' = now /\ lastCall'.op = "periodicUpdate"

\* C21 as stated: after an idle end, activity recorded since the previous tick
\* (a selection, an edit, a terminal event) makes the next tick start a
\* session.
C21_ResumesByNextTick ==
  [][(TimerStep /\ EndedByIdle /\ lastActivityTime >= now - ShortPeriod)
       => currentSession' # Null]_vars

\* C21: after an idle end, the next tick starts a session exactly when the
\* detector is not idle at that tick, which recorded activity since the
\* previous tick guarantees when the idle timeout is at least the timer
\* period; gaining the focus starts one whatever the detector says.  The new
\* session starts at that moment with nothing flushed, and no step taken
\* without a live session adds time to any bucket.
C21_ResumesWhenNotIdle ==
  [][/\ (TimerStep /\ EndedByIdle)
          => /\ IF isIdle(Machine) THEN currentSession' = Null ELSE NewSession
             /\ (lastActivityTime >= now - ShortPeriod /\ idleTimeoutMs >= ShortPeriod)
                  => NewSession
     /\ (now' = now /\ lastCall'.op = "resumeTracking" /\ EndedByIdle) => NewSession
     /\ currentSession = Null => NoFlush]_vars

\* Idle timeout of half a period: the session started at t = 0 was ended by
\* the tick at t = 2, a selection changed at t = 3, and the tick at t = 4
\* started the second session, which counts as activity; no time is recorded.
C21_Witness ==
  /\ lastCall.op = "periodicUpdate"
  /\ now = 4
  /\ idleTimeoutMs = 1
  /\ lastActivityTime = 4
  /\ currentSession # Null
  /\ currentSession.id = 2
  /\ currentSession.startTime = 4
  /\ lastUpdateTime = 4
  /\ StatsOf(cache, today).totalTimeMs = 0
  /\ StatsOf(cache, today).longestSessionMs = 2

\* ------------------------------------- the handlers suspended at their awaits

\* An async function runs until it awaits a write to globalState; the host
\* may deliver other events before the write completes and the function goes
\* on.  What a function has left to do is a sequence of the steps below; the
\* writes complete in the order they were made, within the instant (Date.now()
\* does not move while a write is pending), and none is rejected.

\* One step of an async function, with the locals it has captured: the
\* duration d and the time t of saveSessionProgress, the editor of
\* startNewSession.
Instr(i) == [i |-> i, d |-> 0, t |-> 0, editor |-> Null]

\* What a step leaves: the tracker, the steps it puts before the rest, whether
\* the function is suspended after it, whether it threw.
Done(m) == [m |-> m, push |-> <<>>, wait |-> FALSE, threw |-> FALSE]

\* One step of TimeTracker, up to the next await of a pending write.
\*   ssp       saveSessionProgress() up to await recordSessionTime(...)
\*   sspFile   ... up to await recordFileTime(this.currentSession.fileName, ...)
\*   sspDone   this.lastUpdateTime = now
\*   end       endCurrentSession() up to await updateLongestSession(duration),
\*             which writes only a longer duration
\*   endClear  this.currentSession = null
\*   new       startNewSession(editor): if (this.currentSession) await end
\*   create    ... the rest of startNewSession
\*   off, clear  stopTracking(): isTracking = false; clearInterval
\*   activity  recordActivity()
\*   status    updateStatusBar()
Step(m, ins) ==
  CASE ins.i = "ssp" ->
         IF m.currentSession = Null THEN Done(m)
         ELSE LET s == m.currentSession
                  duration == now - m.lastUpdateTime
              IN [m |-> Awaited(m, recordSessionTime(m.cache, today, s, duration, hour,
                                                     isNightOwlHour(hour))),
                  push |-> <<[Instr("sspFile") EXCEPT !.d = duration, !.t = now]>>,
                  wait |-> TRUE, threw |-> FALSE]
    [] ins.i = "sspFile" ->
         IF m.currentSession = Null
         THEN [m |-> [m EXCEPT !.threw = TRUE, !.unhandled = @ + 1],
               push |-> <<>>, wait |-> FALSE, threw |-> TRUE]
         ELSE [m |-> Awaited(m, recordFileTime(m.cache, today, m.currentSession.fileName,
                                               ins.d, m.currentSession.workspaceName)),
               push |-> <<[Instr("sspDone") EXCEPT !.t = ins.t]>>,
               wait |-> TRUE, threw |-> FALSE]
    [] ins.i = "sspDone" -> Done([m EXCEPT !.lastUpdateTime = ins.t])
    [] ins.i = "end" ->
         IF m.currentSession = Null THEN Done(m)
         ELSE LET ended == [m.currentSession EXCEPT !.endTime = Stamp(now)]
                  duration == ended.endTime.ms - ended.startTime
              IN The({ LET c1 == updateLongestSession(m0.cache, today, duration)
                       IN [m |-> [(IF c1 = m0.cache THEN m0 ELSE Awaited(m0, c1))
                                    EXCEPT !.currentSession = ended],
                           push |-> <<Instr("endClear")>>,
                           wait |-> c1 # m0.cache, threw |-> FALSE]
                       : m0 \in {GetOrCreate(m)} })
    [] ins.i = "endClear" -> Done([m EXCEPT !.currentSession = Null])
    [] ins.i = "new" ->
         [m |-> m,
          push |-> (IF m.currentSession # Null THEN <<Instr("end")>> ELSE <<>>)
                     \o <<[Instr("create") EXCEPT !.editor = ins.editor]>>,
          wait |-> FALSE, threw |-> FALSE]
    [] ins.i = "create" ->
         LET sessionInfo == IF ins.editor # Null THEN ins.editor ELSE m.lastSessionInfo
         IN IF sessionInfo = Null THEN Done(m)
            ELSE Done(recordActivity(
                   [m EXCEPT
                      !.lastSessionInfo = sessionInfo,
                      !.uuidCount = @ + 1,
                      !.currentSession =
                        [id |-> m.uuidCount + 1, startTime |-> now, endTime |-> Null,
                         workspaceName |-> sessionInfo.workspaceName,
                         workspacePath |-> sessionInfo.workspacePath,
                         languageId |-> sessionInfo.languageId,
                         fileName |-> sessionInfo.fileName,
                         isActive |-> TRUE, charactersEdited |-> 0],
                      !.lastUpdateTime = now]))
    [] ins.i = "off" -> Done([m EXCEPT !.isTracking = FALSE])
    [] ins.i = "clear" -> Done([m EXCEPT !.updateInterval = Null])
    [] ins.i = "activity" -> Done(recordActivity(m))
    [] ins.i = "status" -> Done(updateStatusBar(m))

\* The steps prog from the tracker m up to the next suspension, the end of the
\* function or its throw: the tracker then and the steps left.
RECURSIVE Exec(_, _)
Exec(m, prog) ==
  IF prog = <<>> THEN [m |-> m, rest |-> <<>>]
  ELSE The({ IF r.threw THEN [m |-> r.m, rest |-> <<>>]
             ELSE IF r.wait THEN [m |-> r.m, rest |-> r.push \o Tail(prog)]
             ELSE Exec(r.m, r.push \o Tail(prog))
             : r \in {Step(m, Head(prog))} })

\* The bodies of the listeners, as far as they are decided before the first
\* await.
periodicUpdateSteps(m) ==
  IF ~m.isTracking THEN <<>>
  ELSE IF isIdle(m) THEN (IF m.currentSession # Null THEN <<Instr("end")>> ELSE <<>>)
  ELSE IF m.currentSession = Null
       THEN (IF activeTextEditor # Null \/ m.lastSessionInfo # Null
             THEN <<[Instr("new") EXCEPT !.editor = activeTextEditor]>> ELSE <<>>)
  ELSE <<Instr("ssp"), Instr("status")>>

pauseTrackingSteps(m) ==
  IF m.currentSession # Null THEN <<Instr("ssp")>> ELSE <<>>

resumeTrackingSteps(m) ==
  (IF m.isTracking /\ m.currentSession = Null
      /\ (activeTextEditor # Null \/ m.lastSessionInfo # Null)
   THEN <<[Instr("new") EXCEPT !.editor = activeTextEditor]>> ELSE <<>>)
    \o <<Instr("activity")>>

handleWorkspaceChangeSteps(m) ==
  IF ~m.isTracking \/ activeTextEditor = Null THEN <<>>
  ELSE <<Instr("ssp"), [Instr("new") EXCEPT !.editor = activeTextEditor]>>

stopTrackingSteps(m) ==
  IF ~m.isTracking THEN <<>>
  ELSE <<Instr("off")>>
         \o (IF m.currentSession # Null THEN <<Instr("ssp"), Instr("end")>> ELSE <<>>)
         \o <<Instr("clear")>>

\* startTracking() does not await startNewSession(editor): the timer is armed
\* and the status bar updated when that call returns its promise.
startTrackingSteps(m) ==
  IF m.isTracking \/ activeTextEditor = Null THEN <<>>
  ELSE <<[Instr("new") EXCEPT !.editor = activeTextEditor]>>

\* A listener is called: it runs up to its first suspension.
Dispatch(op, m, prog) ==
  \E r \in {Exec(m, prog)} :
    /\ Bounded(r.m)
    /\ Apply(r.m)
    /\ inFlight' = IF r.rest = <<>> THEN inFlight
                   ELSE Append(inFlight, [op |-> op, prog |-> r.rest])
    /\ Len(inFlight') <= MaxInFlight
    /\ Log(op, r.m)
    /\ UNCHANGED <<hostVars, useMockData>>

\* The oldest pending write completes: the function that awaits it goes on.
AsyncResume ==
  /\ inFlight # <<>>
  /\ \E r \in {Exec(Machine, Head(inFlight).prog)} :
       /\ Bounded(r.m)
       /\ Apply(r.m)
       /\ inFlight' = IF r.rest = <<>> THEN Tail(inFlight)
                      ELSE Append(Tail(inFlight), [op |-> Head(inFlight).op, prog |-> r.rest])
       /\ Log(Head(inFlight).op, r.m)
  /\ UNCHANGED <<hostVars, useMockData>>

AsyncAdvanceTime ==
  /\ inFlight = <<>>
  /\ AdvanceTime

AsyncTick ==
  /\ updateInterval # Null
  /\ now = updateInterval.next
  /\ \E m \in {[Machine EXCEPT !.updateInterval = [next |-> now + 1]]} :
       Dispatch("periodicUpdate", m, periodicUpdateSteps(m))

AsyncStartTracking ==
  /\ ~isTracking
  /\ \E r \in {Exec([Machine EXCEPT !.isTracking = TRUE], startTrackingSteps(Machine))} :
       \E m \in {updateStatusBar([r.m EXCEPT !.updateInterval = [next |-> now + 1]])} :
         /\ Bounded(m)
         /\ Apply(m)
         /\ inFlight' = IF r.rest = <<>> THEN inFlight
                        ELSE Append(inFlight, [op |-> "startNewSession", prog |-> r.rest])
         /\ Len(inFlight') <= MaxInFlight
         /\ Log("startTracking", m)
         /\ UNCHANGED <<hostVars, useMockData>>

\* deactivate() / dispose()
AsyncStopTracking ==
  /\ isTracking
  /\ Dispatch("stopTracking", Machine, stopTrackingSteps(Machine))

AsyncWindowState ==
  \E focused \in BOOLEAN :
    IF focused THEN Dispatch("resumeTracking", Machine, resumeTrackingSteps(Machine))
    ELSE Dispatch("pauseTracking", Machine, pauseTrackingSteps(Machine))

AsyncWorkspaceFoldersChange ==
  Dispatch("handleWorkspaceChange", Machine, handleWorkspaceChangeSteps(Machine))

NextAsync ==
  \/ AsyncAdvanceTime
  \/ AsyncResume
  \/ AsyncTick
  \/ AsyncStartTracking
  \/ AsyncStopTracking
  \/ AsyncWindowState
  \/ AsyncWorkspaceFoldersChange

SpecAsync == InitEvents /\ [][NextAsync]_vars

\* The time recorded in the daily totals of the store.
TotalRecorded ==
  MapSum([d \in DOMAIN cache.dailyStats |-> cache.dailyStats[d].totalTimeMs])

\* C22: no time is counted twice.  Whenever no handler is suspended, the
\* daily totals together hold no more than the time that has passed since the
\* tracker was constructed (an upper bound of the time a session was live).
C22_NoTimeCountedTwice == inFlight = <<>> => TotalRecorded <= now

\* The window lost focus while the tick at t = 1 was suspended in its flush:
\* both flushed the period since t = 0, and after both have completed the
\* total of the day is 2 periods.
C22_Witness ==
  /\ now = 1
  /\ inFlight = <<>>
  /\ isTracking
  /\ uuidCount = 1
  /\ currentSession # Null
  /\ currentSession.startTime = 0
  /\ lastUpdateTime = 1
  /\ StatsOf(cache, today).totalTimeMs = 2
  /\ StatsOf(cache, today).fileTimeMs["a.ts"] = 2

\* C23: whenever tracking is off and no stopTracking call is in progress,
\* there is no live session.
C23_StoppedHasNoSession ==
  (~isTracking /\ \A i \in 1..Len(inFlight) : inFlight[i].op # "stopTracking")
    => currentSession = Null

\* stopTracking ran while the workspace-change handler was suspended in its
\* flush; the handler went on after the stop and started a session.  Nothing
\* is in progress, tracking is off, the timer is disarmed, a session is live.
C23_Witness ==
  /\ ~isTracking
  /\ inFlight = <<>>
  /\ updateInterval = Null
  /\ lastCall.op = "handleWorkspaceChange"
  /\ currentSession # Null
  /\ currentSession.endTime = Null
  /\ currentSession.id = 2

\* ------------------------------------------------ the tracker on a failing store

\* globalState.update rejects every attempt of every persist.
Failures == {RetryCount}

\* After activate() with a.ts in the editor.
InitFail ==
  /\ InitEvents
  /\ activeTextEditor = EditorA

\* Date.now() moves on by one timer period; a due timer callback runs first.
FailAdvanceTime ==
  /\ now < MaxFailTime
  /\ updateInterval # Null => now < updateInterval.next
  /\ now' = now + 1
  /\ UNCHANGED <<today, hour, activeTextEditor, trackerVars, storeVars, useMockData, inFlight, lastCall>>

NextFail ==
  \/ FailAdvanceTime
  \/ EvTick(Failures)
  \/ EvStartTracking(Failures)
  \/ EvStopTracking(Failures)
  \/ EvEditorChange(Failures)
  \/ EvDocumentChange(Failures)
  \/ EvSelectionOrTerminal
  \/ EvWindowState(Failures)
  \/ EvWorkspaceFoldersChange(Failures)

SpecFail == InitFail /\ [][NextFail]_vars

\* The handlers of the tracker's events: tick, editor change, focus change,
\* workspace change, document change, stop.
EventHandlers ==
  {"periodicUpdate", "handleEditorChange", "pauseTracking", "resumeTracking",
   "handleWorkspaceChange", "handleDocumentChange", "stopTracking"}

\* C12: when every write attempt of persist fails, no event handler of the
\* tracker (tick, editor change, focus change, workspace change, document
\* change, stop) throws or has its promise rejected.
C12_NoHandlerRejects ==
  (lastCall.op \in EventHandlers /\ lastCall.failures = RetryCount) => ~lastCall.rejected

\* The first tick on the session started at t = 0, while every write fails:
\* persist showed its error message and threw, periodicUpdate was rejected
\* after one period had gone into the cache and before lastUpdateTime moved.
C12_Witness ==
  /\ lastCall.op = "periodicUpdate"
  /\ lastCall.failures = RetryCount
  /\ lastCall.rejected
  /\ lastCall.warnings = 1
  /\ now = 1
  /\ isTracking
  /\ currentSession # Null
  /\ currentSession.id = 1
  /\ lastUpdateTime = 0
  /\ StatsOf(cache, today).totalTimeMs = 1
  /\ MapSum(StatsOf(cache, today).fileTimeMs) = 0
  /\ today \notin DOMAIN globalState.dailyStats

\* C24: endCurrentSession on a live session (here: the tick that finds the
\* detector idle) makes today's longestSessionMs at least the session's length
\* and leaves no live session, whether the write it triggers is accepted or
\* rejected.
C24_EndAlwaysClears ==
  [][(now' = now /\ lastCall'.op = "periodicUpdate" /\ isTracking /\ isIdle(Machine)
        /\ currentSession # Null)
       => /\ currentSession' = Null
          /\ StatsOf(cache', today).longestSessionMs >= now - currentSession.startTime]_vars

\* The idle tick at t = 2 on the session started at t = 0, while every write
\* fails: endTime is stamped and the length is in the cache, but
\* updateLongestSession threw and the session is still the live one.
C24_Witness ==
  /\ lastCall.op = "periodicUpdate"
  /\ lastCall.failures = RetryCount
  /\ lastCall.rejected
  /\ now = 2
  /\ isTracking
  /\ currentSession # Null
  /\ currentSession.id = 1
  /\ currentSession.startTime = 0
  /\ currentSession.endTime = Stamp(2)
  /\ StatsOf(cache, today).longestSessionMs = 2
  /\ StatsOf(globalState, today).longestSessionMs = 0

\* ------------------------------------------------------- the store on its own

\* The values every specification leaves alone unless it says otherwise.
IdleTracker ==
  /\ now = 0
  /\ hour = 23
  /\ activeTextEditor = Null
  /\ lastActivityTime = 0
  /\ idleTimeoutMs = DefaultIdleTimeout
  /\ isTracking = FALSE
  /\ currentSession = Null
  /\ lastUpdateTime = 0
  /\ lastSessionInfo = Null
  /\ editedFiles = {}
  /\ updateInterval = Null
  /\ uuidCount = 0

\* The sessions a caller may hand to recordSessionTime.
SampleSessions ==
  {[id |-> 1, startTime |-> 0, endTime |-> Null, workspaceName |-> "P", workspacePath |-> p,
    languageId |-> l, fileName |-> "a.ts", isActive |-> a, charactersEdited |-> 0] :
     p \in {"/P1", "/P2"}, l \in {"ts", "py"}, a \in BOOLEAN}

InitStore ==
  /\ IdleTracker
  /\ today = <<2024, 12, 31>>
  /\ cache = getDefaultSchema
  /\ globalState = getDefaultSchema
  /\ useMockData = FALSE
  /\ inFlight = <<>>
  /\ lastCall = NoCall

\* The time recorded in the store, over all its dates.
StoreTotal(c) == MapSum([d \in DOMAIN c.dailyStats |-> c.dailyStats[d].totalTimeMs])

\* recordSessionTime(session, durationMs, hour, isNightOwl); its persist succeeds.
RecordSessionTime ==
  \E session \in SampleSessions, durationMs \in 0..MaxDuration, h \in {3, 12} :
    /\ StoreTotal(cache) + durationMs <= MaxStoreTotal
    /\ cache' = recordSessionTime(cache, today, session, durationMs, h, isNightOwlHour(h))
    /\ globalState' = persist(cache', globalState, 0).durable
    /\ UNCHANGED <<hostVars, trackerVars, useMockData, inFlight, lastCall>>

\* Midnight passes: getTodayDate() returns the next date.
StoreNextDay ==
  /\ today = <<2024, 12, 31>>
  /\ today' = NextDate(today)
  /\ UNCHANGED <<now, hour, activeTextEditor, trackerVars, storeVars, useMockData, inFlight, lastCall>>

NextStore == RecordSessionTime \/ StoreNextDay

SpecStore == InitStore /\ [][NextStore]_vars

\* C3: every daily aggregate created empty and mutated only through
\* recordSessionTime has sum(languageTime) = sum(projectTime) = totalTimeMs
\* after every call.
C3_SumsEqualTotal ==
  \A d \in DOMAIN cache.dailyStats :
    /\ MapSum(cache.dailyStats[d].languageTime) = cache.dailyStats[d].totalTimeMs
    /\ MapSum(cache.dailyStats[d].projectTime) = cache.dailyStats[d].totalTimeMs

\* Two days, the first with its time split over two languages and, in
\* another proportion, over two projects.
C3_Witness ==
  /\ DOMAIN cache.dailyStats = {<<2024, 12, 31>>, <<2025, 1, 1>>}
  /\ cache.dailyStats[<<2024, 12, 31>>].totalTimeMs = 3
  /\ cache.dailyStats[<<2024, 12, 31>>].languageTime = [x \in {"ts", "py"} |-> IF x = "ts" THEN 1 ELSE 2]
  /\ cache.dailyStats[<<2024, 12, 31>>].projectTime = [x \in {"/P1", "/P2"} |-> IF x = "/P1" THEN 2 ELSE 1]
  /\ cache.dailyStats[<<2025, 1, 1>>].totalTimeMs = 0

\* ------------------------------------------------------ persist and its retries

\* After activate() and the first refresh of the status bar: today's
\* aggregate exists, empty, in the cache and in globalState.
InitPersist ==
  /\ IdleTracker
  /\ today = <<2024, 12, 31>>
  /\ cache = getOrCreateTodayStats(getDefaultSchema, today)
  /\ globalState = cache
  /\ useMockData = FALSE
  /\ inFlight = <<>>
  /\ lastCall = NoCall

\* The call of persist that ends a mutator of the store: c is the cache the
\* mutator leaves, rejects[k] tells whether globalState.update rejects the
\* k-th attempt.  lastCall keeps what the call did, the durable value before
\* it, and whether the call before it threw.
PersistAfter(c, rejects) ==
  LET p == persistWith(c, globalState, rejects)
  IN /\ lastCall.n < MaxPersists
     /\ cache' = c
     /\ globalState' = p.durable
     /\ lastCall' = [op |-> "persist", n |-> lastCall.n + 1, rejects |-> rejects,
                     attempts |-> p.attempts, waits |-> p.waits, warnings |-> p.warnings,
                     threw |-> p.threw, before |-> globalState,
                     pending |-> lastCall.n > 0 /\ lastCall.threw]
     /\ UNCHANGED <<hostVars, trackerVars, useMockData, inFlight>>

\* recordSessionTime(session, durationMs, hour, isNightOwl) and its persist
PersistSessionTime ==
  \E rejects \in [1..RetryCount -> BOOLEAN], l \in {"ts", "py"} :
    PersistAfter(recordSessionTime(cache, today,
                                   [id |-> 1, startTime |-> 0, endTime |-> Null,
                                    workspaceName |-> "P1", workspacePath |-> "/P1",
                                    languageId |-> l, fileName |-> "a.ts",
                                    isActive |-> TRUE, charactersEdited |-> 0],
                                   1, 12, isNightOwlHour(12)),
                 rejects)

\* updateSettings(settings) and its persist
PersistSettings ==
  \E rejects \in [1..RetryCount -> BOOLEAN], show \in BOOLEAN :
    PersistAfter(updateSettings(cache, [showStatusBar |-> show]), rejects)

NextPersist == PersistSessionTime \/ PersistSettings

SpecPersist == InitPersist /\ [][NextPersist]_vars

\* The attempts of the last call whose write was accepted.
Accepted == {k \in 1..RetryCount : ~lastCall.rejects[k]}

\* C13: a call of persist makes at most 3 attempts and stops at the first
\* accepted write; it waits 100 * attempt ms after each failed attempt but
\* the last, and it shows the error message exactly once, and throws, only
\* when the third attempt in a row has failed.
C13_PersistBounded ==
  lastCall.op = "persist" =>
    /\ lastCall.attempts \in 1..RetryCount
    /\ Accepted # {} =>
         /\ lastCall.attempts \in Accepted
         /\ \A k \in Accepted : lastCall.attempts <= k
         /\ lastCall.warnings = 0
         /\ ~lastCall.threw
    /\ Accepted = {} =>
         /\ lastCall.attempts = RetryCount
         /\ lastCall.warnings = 1
         /\ lastCall.threw
    /\ lastCall.waits = [k \in 1..(lastCall.attempts - 1) |-> BackoffMs * k]

\* The first two writes were rejected and the third accepted: three attempts,
\* waits of 100 and 200 ms, no error message, the cache written.
C13_Witness ==
  /\ lastCall.op = "persist"
  /\ lastCall.rejects = <<TRUE, TRUE, FALSE>>
  /\ lastCall.attempts = 3
  /\ lastCall.waits = <<100, 200>>
  /\ lastCall.warnings = 0
  /\ ~lastCall.threw
  /\ globalState = cache
  /\ globalState # lastCall.before

\* C14: after a call of persist whose write was accepted globalState equals
\* the whole cache, increments of earlier failed calls included; after a call
\* that failed globalState is what it was.
C14_SuccessWritesCache ==
  lastCall.op = "persist" =>
    IF lastCall.threw THEN globalState = lastCall.before ELSE globalState = cache

\* updateSettings failed to save, then two periods were recorded, the first
\* failing to save too: the write of the second carried all three changes.
C14_Witness ==
  /\ lastCall.op = "persist"
  /\ lastCall.n = 3
  /\ lastCall.pending
  /\ ~lastCall.threw
  /\ lastCall.before = getOrCreateTodayStats(getDefaultSchema, today)
  /\ cache.settings.showStatusBar = FALSE
  /\ cache.dailyStats[today].totalTimeMs = 2
  /\ globalState = cache

\* ------------------------------------------------- the end-to-end scenario

\* One timer period is 30 s: the scenario's switch at 10 min, its idle timeout
\* of 5 min (the default setting) and the last instant looked at.
SwitchTime == 2 * DefaultIdleTimeout
ScenarioEnd == SwitchTime + DefaultIdleTimeout + 2

InitE2E ==
  /\ now = 0
  /\ today = <<2024, 12, 31>>
  /\ hour = 23
  /\ activeTextEditor = EditorA
  /\ lastActivityTime = 0
  /\ idleTimeoutMs = getSettings(getDefaultSchema).idleTimeoutMs
  /\ isTracking = FALSE
  /\ currentSession = Null
  /\ lastUpdateTime = 0
  /\ lastSessionInfo = Null
  /\ editedFiles = {}
  /\ updateInterval = Null
  /\ uuidCount = 0
  /\ cache = getDefaultSchema
  /\ globalState = getDefaultSchema
  /\ useMockData = FALSE
  /\ inFlight = <<>>
  /\ lastCall = NoCall

\* startTracking() at t = 0 with a.ts in the editor.
E2EStart ==
  /\ now = 0
  /\ ~isTracking
  /\ StartTracking

E2EAdvanceTime ==
  /\ isTracking
  /\ now < ScenarioEnd
  /\ now < updateInterval.next
  /\ now' = now + 1
  /\ UNCHANGED <<today, hour, activeTextEditor, trackerVars, storeVars, useMockData, inFlight, lastCall>>

\* The user is active (or not) until the switch, and not after it.
E2EActivity ==
  /\ isTracking
  /\ now < SwitchTime
  /\ SelectionOrTerminal

\* At t = 10 min the editor shows b.ts.
E2ESwitch ==
  /\ isTracking
  /\ now = SwitchTime
  /\ activeTextEditor = EditorA
  /\ activeTextEditor' = EditorB
  /\ Apply(handleEditorChange(Machine, EditorB))
  /\ UNCHANGED <<now, today, hour, useMockData, inFlight, lastCall>>

NextE2E == E2EStart \/ E2EAdvanceTime \/ Tick \/ E2EActivity \/ E2ESwitch

SpecE2E == InitE2E /\ [][NextE2E]_vars

\* The step that ends the scenario's session: the first session, started at
\* t = 0 on a.ts and by now relabelled to b.ts.
E2ESessionEnds ==
  /\ currentSession # Null
  /\ currentSession' = Null
  /\ currentSession.id = 1
  /\ currentSession.fileName = "b.ts"

\* The claim C4 as stated: the session is ended at t = 15 min, its length and
\* the longest session both 15 min.
C4_EndsAtFifteen ==
  [][E2ESessionEnds =>
       /\ now = SwitchTime + DefaultIdleTimeout
       /\ currentSession.startTime = 0
       /\ uuidCount' = 1
       /\ Get(StatsOf(cache', today).languageTime, "ts") = SwitchTime + DefaultIdleTimeout
       /\ Get(StatsOf(cache', today).fileTimeMs, "a.ts") = SwitchTime
       /\ Get(StatsOf(cache', today).fileTimeMs, "b.ts") = DefaultIdleTimeout
       /\ StatsOf(cache', today).longestSessionMs = SwitchTime + DefaultIdleTimeout]_vars

\* C4: with the timer ticking every 30 s from t = 0, the session started at
\* t = 0 on (P1, ts, a.ts) and switched to b.ts at t = 10 min, with idle timeout
\* 5 min and no later activity, is flushed but not ended by the tick at
\* t = 15 min and ended by the next tick, at 15 min 30 s: languageTime['ts'] is
\* 15 min, fileTimeMs['a.ts'] 10 min, fileTimeMs['b.ts'] 5 min, longestSessionMs
\* 15 min 30 s, and there is exactly one session, from 0 to 15 min 30 s.
C4_EndsAtNextTick ==
  [][E2ESessionEnds =>
       /\ now = SwitchTime + DefaultIdleTimeout + 1
       /\ currentSession.startTime = 0
       /\ uuidCount' = 1
       /\ Get(StatsOf(cache', today).languageTime, "ts") = SwitchTime + DefaultIdleTimeout
       /\ Get(StatsOf(cache', today).projectTime, "/P1") = SwitchTime + DefaultIdleTimeout
       /\ StatsOf(cache', today).totalTimeMs = SwitchTime + DefaultIdleTimeout
       /\ Get(StatsOf(cache', today).fileTimeMs, "a.ts") = SwitchTime
       /\ Get(StatsOf(cache', today).fileTimeMs, "b.ts") = DefaultIdleTimeout
       /\ StatsOf(cache', today).longestSessionMs = SwitchTime + DefaultIdleTimeout + 1]_vars

\* The scenario has run to its end: the only session was ended by the tick
\* after the idle timeout was reached.
C4_Witness ==
  /\ isTracking
  /\ currentSession = Null
  /\ uuidCount = 1
  /\ activeTextEditor = EditorB
  /\ lastActivityTime = SwitchTime
  /\ now = SwitchTime + DefaultIdleTimeout + 1
  /\ Get(StatsOf(cache, today).fileTimeMs, "a.ts") = SwitchTime
  /\ Get(StatsOf(cache, today).fileTimeMs, "b.ts") = DefaultIdleTimeout
  /\ StatsOf(cache, today).longestSessionMs = SwitchTime + DefaultIdleTimeout + 1

\* ------------------------------------------------------- the configuration

\* updateSettings() of the extension, run when a codevoyage setting changes:
\* idleTimeout is the value of codevoyage.idleTimeout (in timer periods),
\* showStatusBar that of codevoyage.showStatusBar.  The store's
\* updateSettings is not awaited.
onDidChangeConfiguration(m, idleTimeout, showStatusBar) ==
  LET ms == IF idleTimeout # 0 THEN idleTimeout ELSE FallbackIdleTimeout
      c1 == updateSettings(m.cache, [idleTimeoutMs |-> ms, showStatusBar |-> showStatusBar])
      p == persist(c1, m.durable, m.failures)
  IN setIdleTimeout([m EXCEPT !.cache = c1, !.durable = p.durable,
                              !.warnings = @ + (IF p.warned THEN 1 ELSE 0),
                              !.unhandled = @ + (IF p.threw THEN 1 ELSE 0)],
                    ms)

\* The last instant looked at: two ticks after the fallback timeout.
ConfigEnd == FallbackIdleTimeout + 2

\* The user sets codevoyage.idleTimeout; lastCall keeps the value set.
ConfigurationChange ==
  \E idleTimeout \in 0..MaxTimeout :
    /\ isTracking
    /\ lastCall.op = "updateSettings" => lastCall.idleTimeout # idleTimeout
    /\ Apply(onDidChangeConfiguration(Machine, idleTimeout, TRUE))
    /\ lastCall' = [op |-> "updateSettings", n |-> 0, idleTimeout |-> idleTimeout]
    /\ UNCHANGED <<hostVars, useMockData, inFlight>>

ConfigStart ==
  /\ now = 0
  /\ ~isTracking
  /\ StartTracking

ConfigAdvanceTime ==
  /\ isTracking
  /\ now < ConfigEnd
  /\ now < updateInterval.next
  /\ now' = now + 1
  /\ UNCHANGED <<today, hour, activeTextEditor, trackerVars, storeVars, useMockData, inFlight, lastCall>>

ConfigActivity ==
  /\ isTracking
  /\ SelectionOrTerminal

NextConfig == ConfigStart \/ ConfigAdvanceTime \/ Tick \/ ConfigActivity \/ ConfigurationChange

SpecConfig == InitE2E /\ [][NextConfig]_vars

\* C15: once codevoyage.idleTimeout has been set to 0 and the change applied,
\* no periodic tick ends a session.
C15_ZeroDisablesIdle ==
  [][(TickStep /\ lastCall.op = "updateSettings" /\ lastCall.idleTimeout = 0
        /\ currentSession # Null)
       => currentSession' # Null]_vars

\* codevoyage.idleTimeout is 0, the detector's timeout is the fallback of
\* 300 s, and the tick at 5 min 30 s has ended the session started at t = 0.
C15_Witness ==
  /\ lastCall.op = "updateSettings"
  /\ lastCall.idleTimeout = 0
  /\ idleTimeoutMs = FallbackIdleTimeout
  /\ cache.settings.idleTimeoutMs = FallbackIdleTimeout
  /\ isTracking
  /\ currentSession = Null
  /\ uuidCount = 1
  /\ lastActivityTime = 0
  /\ now = FallbackIdleTimeout + 1
  /\ StatsOf(cache, today).longestSessionMs = FallbackIdleTimeout + 1

\* ------------------------------------------------------------------- import

ImportDates == {<<2024, 1, 1>>, <<2024, 1, 2>>}

\* A daily aggregate of date d holding t hours.
DayStats(d, t) == [createEmptyDailyStats(d) EXCEPT !.totalTimeMs = t]

\* The dailyStats maps of the sampled stores and import files.
ImportMaps ==
  UNION {{[d \in D |-> DayStats(d, f[d])] : f \in [D -> 1..MaxImportTotal]} :
           D \in SUBSET ImportDates}

\* The stores an import may meet.
SampleStores ==
  {[getDefaultSchema EXCEPT !.dailyStats = m, !.settings = st] :
     m \in ImportMaps,
     st \in {DefaultSettings, [DefaultSettings EXCEPT !.idleTimeoutMs = 0]}}

\* What JSON.parse may hand to importData.
ImportPayloads ==
  {[kind |-> "null"]} \cup
  {[kind |-> "object", version |-> v, dailyStats |-> d, settings |-> st] :
     v \in {[defined |-> FALSE, value |-> 0]} \cup
           {[defined |-> TRUE, value |-> n] : n \in -1..(SCHEMA_VERSION + 1)},
     d \in {[type |-> "undefined", value |-> EmptyMap], [type |-> "string", value |-> EmptyMap]} \cup
           {[type |-> "object", value |-> m] : m \in ImportMaps},
     st \in {[defined |-> FALSE, value |-> EmptyMap],
             [defined |-> TRUE, value |-> [showStatusBar |-> FALSE]]}}

InitImport ==
  /\ IdleTracker
  /\ today = <<2024, 1, 2>>
  /\ cache \in SampleStores
  /\ globalState = cache
  /\ useMockData = FALSE
  /\ inFlight = <<>>
  /\ lastCall = NoCall

\* The codevoyage.importData command calls importData(data); the first
\* `failures` writes to globalState are rejected.
ImportData ==
  \E data \in ImportPayloads, failures \in {0, RetryCount} :
    LET r == importData(cache, globalState, data, failures)
    IN /\ lastCall.n < MaxImports
       /\ cache' = r.cache
       /\ globalState' = r.durable
       /\ lastCall' = [op |-> "importData", n |-> lastCall.n + 1, arg |-> data,
                       failures |-> failures, before |-> cache, kind |-> r.kind,
                       result |-> r.result]
       /\ UNCHANGED <<hostVars, trackerVars, useMockData, inFlight>>

NextImport == ImportData

SpecImport == InitImport /\ [][NextImport]_vars

\* The last call was importData of a payload of a supported version with a
\* dailyStats object.
ValidImport ==
  /\ lastCall.op = "importData"
  /\ lastCall.arg.kind = "object"
  /\ lastCall.arg.version.defined
  /\ lastCall.arg.version.value \in 1..SCHEMA_VERSION
  /\ lastCall.arg.dailyStats.type = "object"

\* C5: a successful importData of a valid payload merges: every date of the
\* payload holds the imported value, every other existing date is unchanged,
\* no other date appears, and the settings are the existing ones overridden
\* field by field by the imported ones.
C5_ImportMerges ==
  ValidImport /\ lastCall.result.success =>
    LET imported == lastCall.arg.dailyStats.value
        existing == lastCall.before.dailyStats
        importedSettings ==
          IF lastCall.arg.settings.defined THEN lastCall.arg.settings.value ELSE EmptyMap
    IN /\ DOMAIN cache.dailyStats = DOMAIN existing \cup DOMAIN imported
       /\ \A d \in DOMAIN imported : cache.dailyStats[d] = imported[d]
       /\ \A d \in DOMAIN existing \ DOMAIN imported : cache.dailyStats[d] = existing[d]
       /\ DOMAIN cache.settings = DOMAIN lastCall.before.settings \cup DOMAIN importedSettings
       /\ \A f \in DOMAIN cache.settings :
            cache.settings[f] =
              IF f \in DOMAIN importedSettings THEN importedSettings[f]
              ELSE lastCall.before.settings[f]
       /\ globalState = cache

\* The store {2024-01-01: 1h} after importing {2024-01-01: 2h, 2024-01-02: 1h}.
C5_Witness ==
  /\ ValidImport
  /\ lastCall.result.success
  /\ lastCall.before.dailyStats = [d \in {<<2024, 1, 1>>} |-> DayStats(d, 1)]
  /\ lastCall.arg.dailyStats.value =
       [d \in ImportDates |-> DayStats(d, IF d = <<2024, 1, 1>> THEN 2 ELSE 1)]
  /\ cache.dailyStats = [d \in ImportDates |-> DayStats(d, IF d = <<2024, 1, 1>> THEN 2 ELSE 1)]

\* The claim C6 as stated: whenever importData returns success = false the
\* store is what it was before the call.
C6_FailedImportKeepsStore ==
  lastCall.op = "importData" /\ ~lastCall.result.success =>
    /\ cache.dailyStats = lastCall.before.dailyStats
    /\ cache.settings = lastCall.before.settings
    /\ cache.currentSession = lastCall.before.currentSession
    /\ cache.version = lastCall.before.version

\* importData has answered "Import failed" because no write got through, and
\* the store in memory holds a date it did not hold before.
C6_Witness ==
  /\ lastCall.op = "importData"
  /\ ~lastCall.result.success
  /\ lastCall.result.message = "Import failed"
  /\ lastCall.failures = RetryCount
  /\ DOMAIN lastCall.before.dailyStats = {<<2024, 1, 1>>}
  /\ DOMAIN cache.dailyStats = ImportDates
  /\ globalState.dailyStats = lastCall.before.dailyStats

\* C7: importData never throws: for every payload and every persistence
\* outcome it returns a result with a success flag, and on success the result
\* reports the number of date keys of the imported payload.
C7_ImportNeverThrows ==
  lastCall.op = "importData" =>
    /\ lastCall.kind = "return"
    /\ lastCall.result.success \in BOOLEAN
    /\ lastCall.result.message \in
         {"Unsupported data version", "Invalid data format", "Successfully imported", "Import failed"}
    /\ lastCall.result.success =>
         /\ lastCall.arg.kind = "object"
         /\ lastCall.result.importedDays = Cardinality(DOMAIN lastCall.arg.dailyStats.value)
         /\ lastCall.result.message = "Successfully imported"

\* importData(null) has returned a failure, the TypeError caught.
C7_Witness ==
  /\ lastCall.op = "importData"
  /\ lastCall.arg.kind = "null"
  /\ lastCall.kind = "return"
  /\ ~lastCall.result.success
  /\ lastCall.result.message = "Import failed"
  /\ cache = lastCall.before

\* ------------------------------------------------- every mutator of the store

\* The sessions a caller may hand to setCurrentSession.
StoredSessions == {Null, CHOOSE s \in SampleSessions : s.languageId = "ts" /\ s.isActive}

\* One call of a mutator of the store: its name and the cache it leaves.
\* The date is getTodayDate() at the call.
MutatorCalls ==
  {[op |-> "recordSessionTime",
    cache |-> recordSessionTime(cache, today, s, d, 12, FALSE)] :
     s \in {x \in SampleSessions : x.isActive /\ x.workspacePath = "/P1"}, d \in 0..1}
  \cup {[op |-> "recordFileTime", cache |-> recordFileTime(cache, today, f, 1, w)] :
          f \in {"a.ts", "b.ts"}, w \in {"", "P1"}}
  \cup {[op |-> "recordCharactersEdited", cache |-> recordCharactersEdited(cache, today, 1)]}
  \cup {[op |-> "updateLongestSession", cache |-> updateLongestSession(cache, today, d)] :
          d \in 0..MaxDuration}
  \cup {[op |-> "incrementEditedFileCount", cache |-> incrementEditedFileCount(cache, today)]}
  \cup {[op |-> "updateSettings", cache |-> updateSettings(cache, st)] :
          st \in {[showStatusBar |-> FALSE], [idleTimeoutMs |-> 0], EmptyMap}}
  \cup {[op |-> "setCurrentSession", cache |-> setCurrentSession(cache, s)] :
          s \in StoredSessions}
  \cup {[op |-> "clearAllData", cache |-> clearAllData]}

InitMutators ==
  /\ IdleTracker
  /\ today = <<2024, 1, 1>>
  /\ cache \in SampleStores
  /\ globalState = cache
  /\ useMockData = FALSE
  /\ inFlight = <<>>
  /\ lastCall = NoCall

\* A mutator is called; the first `failures` writes of its persist are
\* rejected (its promise is then rejected, the cache stays as it left it).
Mutate ==
  \E call \in MutatorCalls, failures \in {0, RetryCount} :
    /\ lastCall.n < MaxMutations
    /\ \E p \in {persist(call.cache, globalState, failures)} :
         /\ cache' = call.cache
         /\ globalState' = p.durable
         /\ lastCall' = [op |-> call.op, n |-> lastCall.n + 1, failures |-> failures,
                         result |-> [success |-> ~p.threw]]
    /\ UNCHANGED <<hostVars, trackerVars, useMockData, inFlight>>

\* importData(data) on a file of the import command
MutateImport ==
  \E data \in ImportPayloads, failures \in {0, RetryCount} :
    /\ lastCall.n < MaxMutations
    /\ \E r \in {importData(cache, globalState, data, failures)} :
         /\ cache' = r.cache
         /\ globalState' = r.durable
         /\ lastCall' = [op |-> "importData", n |-> lastCall.n + 1, failures |-> failures,
                         result |-> [success |-> r.result.success]]
    /\ UNCHANGED <<hostVars, trackerVars, useMockData, inFlight>>

\* importData(exportData())
RoundTrip ==
  \E failures \in {0, RetryCount} :
    /\ lastCall.n < MaxMutations
    /\ \E r \in {importData(cache, globalState, exportData(cache), failures)} :
         /\ cache' = r.cache
         /\ globalState' = r.durable
         /\ lastCall' = [op |-> "roundTrip", n |-> lastCall.n + 1, failures |-> failures,
                         result |-> [success |-> r.result.success]]
    /\ UNCHANGED <<hostVars, trackerVars, useMockData, inFlight>>

\* Midnight passes: getTodayDate() returns the next date.
MutatorsNextDay ==
  /\ today = <<2024, 1, 1>>
  /\ today' = NextDate(today)
  /\ UNCHANGED <<now, hour, activeTextEditor, trackerVars, storeVars, useMockData, inFlight,
                 lastCall>>

NextMutators == Mutate \/ MutateImport \/ RoundTrip \/ MutatorsNextDay

SpecMutators == InitMutators /\ [][NextMutators]_vars

\* C31: no call of recordSessionTime, recordFileTime, recordCharactersEdited,
\* updateLongestSession, incrementEditedFileCount, updateSettings,
\* setCurrentSession or importData, whether its write is accepted or
\* rejected, removes a date key from the dailyStats of the store; only
\* clearAllData does.
C31_DatesNeverShrink ==
  [][lastCall'.op # "clearAllData"
       => DOMAIN cache.dailyStats \subseteq DOMAIN cache'.dailyStats]_vars

\* The store held 2024-01-01 with two hours; on 2024-01-02 a file was counted:
\* both dates are there and the first is as it was.
C31_Witness ==
  /\ lastCall.op = "incrementEditedFileCount"
  /\ today = <<2024, 1, 2>>
  /\ DOMAIN cache.dailyStats = {<<2024, 1, 1>>, <<2024, 1, 2>>}
  /\ cache.dailyStats[<<2024, 1, 1>>] = DayStats(<<2024, 1, 1>>, 2)
  /\ cache.dailyStats[<<2024, 1, 2>>].editedFileCount = 1
  /\ cache.dailyStats[<<2024, 1, 2>>].totalTimeMs = 0

\* C32: importData(exportData()) leaves the cache as it was (dailyStats,
\* settings, currentSession and version) and, its write accepted, returns
\* success with globalState holding the same value.
C32_RoundTrip ==
  [][(lastCall'.op = "roundTrip" /\ lastCall'.n = lastCall.n + 1)
       => /\ cache' = cache
          /\ lastCall'.failures = 0 => (lastCall'.result.success /\ globalState' = cache)]_vars

\* The round trip of a store with a current session, two dates and changed
\* settings succeeded.
C32_Witness ==
  /\ lastCall.op = "roundTrip"
  /\ lastCall.n = 2
  /\ lastCall.result.success
  /\ cache.currentSession # Null
  /\ cache.version = SCHEMA_VERSION
  /\ cache.settings.idleTimeoutMs = 0
  /\ DOMAIN cache.dailyStats = {<<2024, 1, 1>>, <<2024, 1, 2>>}
  /\ globalState = cache

\* --------------------------------------------------------------- statistics

\* The dates that may hold an aggregate: WindowLen dates from 2024-12-26.
RECURSIVE DatesFrom(_, _)
DatesFrom(d, n) == IF n = 0 THEN {} ELSE {d} \cup DatesFrom(NextDate(d), n - 1)
WindowDates == DatesFrom(<<2024, 12, 26>>, WindowLen)

\* The stores the statistics may read: each date of the window holds time
\* (1..MaxDayTotal) or none, and the dates without time are all absent or all
\* hold an empty aggregate.
StatsStores ==
  UNION {{[getDefaultSchema EXCEPT !.dailyStats = [d \in D |-> DayStats(d, f[d])]] :
            f \in [D -> 1..MaxDayTotal]} : D \in SUBSET WindowDates}
  \cup
  UNION {{[getDefaultSchema EXCEPT
             !.dailyStats = [d \in WindowDates |-> DayStats(d, IF d \in D THEN f[d] ELSE 0)]] :
            f \in [D -> 1..MaxDayTotal]} : D \in SUBSET WindowDates}

Offsets == {-1, 0}
PeriodTypes == {"week", "month", "year"}

InitStats ==
  /\ IdleTracker
  /\ today \in {<<2024, 12, 31>>, <<2025, 1, 1>>}
  /\ cache \in StatsStores
  /\ globalState = cache
  /\ useMockData = FALSE
  /\ inFlight = <<>>
  /\ lastCall = NoCall

\* The dashboard asks for the summary of a period.
GenerateSummary ==
  \E periodType \in PeriodTypes, offset \in Offsets :
    /\ lastCall' = [op |-> "generateSummary", n |-> 0, periodType |-> periodType,
                    offset |-> offset, mock |-> useMockData,
                    result |-> getSummaryForCurrentPeriod(cache, today, useMockData,
                                                          periodType, offset)]
    /\ UNCHANGED <<hostVars, trackerVars, storeVars, useMockData, inFlight>>

\* The range of a period, as the generators ask for it.
PeriodBounds(td, periodType, offset) ==
  IF periodType = "month" THEN getMonthBounds(td, offset)
  ELSE IF periodType = "year" THEN getYearBounds(td, offset)
  ELSE getWeekBounds(td, offset)

\* calculateStreak and calculateLongestStreak on the aggregates of a period.
CalculateStreaks ==
  \E periodType \in PeriodTypes, offset \in Offsets :
    LET bounds == PeriodBounds(today, periodType, offset)
        dailyStats == getStatsRange(cache, bounds.start, bounds.end)
    IN /\ lastCall' = [op |-> "calculateStreak", n |-> 0, periodType |-> periodType,
                       offset |-> offset, streak |-> calculateStreak(dailyStats),
                       longest |-> calculateLongestStreak(dailyStats)]
       /\ UNCHANGED <<hostVars, trackerVars, storeVars, useMockData, inFlight>>

\* setUseMockData(useMock)
SetUseMockData ==
  \E useMock \in BOOLEAN :
    /\ useMock # useMockData
    /\ useMockData' = useMock
    /\ UNCHANGED <<hostVars, trackerVars, storeVars, inFlight, lastCall>>

NextStats == GenerateSummary \/ CalculateStreaks \/ SetUseMockData

SpecStats == InitStats /\ [][NextStats]_vars

\* The dates of the store inside the period the last call was about.
DatesInRange ==
  LET bounds == PeriodBounds(today, lastCall.periodType, lastCall.offset)
  IN {d \in DOMAIN cache.dailyStats : ~DateLess(d, bounds.start) /\ ~DateLess(bounds.end, d)}

\* The time recorded on those dates.
RangeTotal == MapSum([d \in DatesInRange |-> cache.dailyStats[d].totalTimeMs])

\* C8: with mock mode off, each of the three generators returns null whenever
\* the totalTimeMs of the aggregates in the requested range sums to zero, the
\* range holding no aggregate at all included.
C8_NullWhenZero ==
  lastCall.op = "generateSummary" /\ ~lastCall.mock /\ RangeTotal = 0 =>
    lastCall.result = Null

\* The week from 2024-12-30 holds aggregates, all of them empty, while an
\* earlier date holds time: the weekly summary is null.
C8_Witness ==
  /\ lastCall.op = "generateSummary"
  /\ ~lastCall.mock
  /\ lastCall.periodType = "week"
  /\ lastCall.offset = 0
  /\ DatesInRange = {<<2024, 12, 30>>, <<2024, 12, 31>>, <<2025, 1, 1>>}
  /\ RangeTotal = 0
  /\ cache.dailyStats[<<2024, 12, 29>>].totalTimeMs > 0
  /\ lastCall.result = Null

ActiveDates == {d \in DatesInRange : cache.dailyStats[d].totalTimeMs > 0}

\* A run: consecutive calendar dates, each but the first the day after another.
IsRun(R) == R # {} /\ \E first \in R : \A d \in R \ {first} : \E e \in R : d = NextDate(e)

\* The length of the longest of the runs Rs (0 when there is none).
LongestOf(Rs) ==
  IF Rs = {} THEN 0
  ELSE CHOOSE n \in {Cardinality(R) : R \in Rs} : \A R \in Rs : Cardinality(R) <= n

\* C10: calculateStreak is the length of the run of consecutive active dates
\* that ends at the most recent active date (0 when no date is active), and
\* calculateLongestStreak is the greatest length of a run of consecutive
\* active dates.
C10_Streaks ==
  lastCall.op = "calculateStreak" =>
    LET runs == {R \in SUBSET ActiveDates : IsRun(R)}
        latest == {d \in ActiveDates : \A e \in ActiveDates : ~DateLess(d, e)}
    IN /\ lastCall.streak = LongestOf({R \in runs : latest \subseteq R})
       /\ lastCall.longest = LongestOf(runs)
       /\ ActiveDates = {} => lastCall.streak = 0 /\ lastCall.longest = 0

\* December 2024 with the active dates D = 12-31, D-1, D-2 and D-5: the
\* streak is 3 and the longest streak is 3.
C10_Witness ==
  /\ lastCall.op = "calculateStreak"
  /\ lastCall.periodType = "month"
  /\ lastCall.offset = 0
  /\ today = <<2024, 12, 31>>
  /\ ActiveDates = {<<2024, 12, 31>>, <<2024, 12, 30>>, <<2024, 12, 29>>, <<2024, 12, 26>>}
  /\ lastCall.streak = 3
  /\ lastCall.longest = 3

\* The dates of the range the last call was about that hold time.
ActiveDatesInRange == {d \in DatesInRange : cache.dailyStats[d].totalTimeMs > 0}

\* C33: on the aggregates of any period, calculateLongestStreak is at least
\* calculateStreak, both are at most the number of days with time, and both
\* are at least 1 when some day holds time; so every summary that is not null
\* has streakDays >= 1.
C33_StreakBounds ==
  /\ lastCall.op = "calculateStreak" =>
       /\ lastCall.longest >= lastCall.streak
       /\ lastCall.longest <= Cardinality(ActiveDatesInRange)
       /\ lastCall.streak >= 0
       /\ ActiveDatesInRange # {} => lastCall.streak >= 1
       /\ ActiveDatesInRange = {} => lastCall.longest = 0
  /\ (lastCall.op = "generateSummary" /\ ~lastCall.mock /\ lastCall.result # Null) =>
       /\ lastCall.result.streakDays >= 1
       /\ lastCall.result.streakDays <= Cardinality(ActiveDatesInRange)

\* December 26 to 28 and 30 to 31 hold time, the 29th does not: the streak of
\* the month is 2, its longest streak 3, on 5 active days.
C33_Witness ==
  /\ lastCall.op = "calculateStreak"
  /\ lastCall.periodType = "month"
  /\ today = <<2024, 12, 31>>
  /\ lastCall.offset = 0
  /\ ActiveDatesInRange = {<<2024, 12, 26>>, <<2024, 12, 27>>, <<2024, 12, 28>>,
                           <<2024, 12, 30>>, <<2024, 12, 31>>}
  /\ lastCall.streak = 2
  /\ lastCall.longest = 3

\* ------------------------------------------------- the summaries of a year
\* Times are counted in units of 30 minutes; an hour of the day holds at most
\* two of them.

\* A number[24] holding `times` and 0 elsewhere.
HoursOf(times) == [h \in 0..23 |-> Get(times, h)]

\* A day of two sittings on one project: 6-9 h, and 22-24 h with 0-1 h.
FocusedDay(d) ==
  [createEmptyDailyStats(d) EXCEPT
     !.totalTimeMs = 12, !.activeTimeMs = 12,
     !.projectTime = ("/w/p1" :> 12), !.languageTime = ("typescript" :> 12),
     !.hourlyDistribution = HoursOf((0 :> 2) @@ (6 :> 2) @@ (7 :> 2) @@ (8 :> 2)
                                    @@ (22 :> 2) @@ (23 :> 2)),
     !.nightOwlTimeMs = 6, !.longestSessionMs = 6, !.editedFileCount = 250]

\* An afternoon of half hours over ten projects and eleven languages.
ScatteredDay(d) ==
  [createEmptyDailyStats(d) EXCEPT
     !.totalTimeMs = 12, !.activeTimeMs = 12,
     !.projectTime = [k \in {ProjectKeys[i] : i \in 1..Len(ProjectKeys)} |->
                        IF k = "/w/p1" THEN 3 ELSE 1],
     !.languageTime = [k \in {LanguageKeys[i] : i \in 1..Len(LanguageKeys)} |->
                         IF k = "typescript" THEN 2 ELSE 1],
     !.hourlyDistribution = HoursOf((12 :> 2) @@ (13 :> 2) @@ (14 :> 2) @@ (15 :> 2)
                                    @@ (16 :> 2) @@ (17 :> 2)),
     !.longestSessionMs = 1, !.editedFileCount = 10]

\* Two and a half hours after noon on the second project.
ShortDay(d) ==
  [createEmptyDailyStats(d) EXCEPT
     !.totalTimeMs = 5, !.activeTimeMs = 5,
     !.projectTime = ("/w/p2" :> 5), !.languageTime = ("typescript" :> 5),
     !.hourlyDistribution = HoursOf((12 :> 2) @@ (13 :> 2) @@ (14 :> 1)),
     !.longestSessionMs = 1, !.editedFileCount = 1]

\* Three hours of the night on the ninth project.
NightDay(d) ==
  [createEmptyDailyStats(d) EXCEPT
     !.totalTimeMs = 6, !.activeTimeMs = 6,
     !.projectTime = ("/w/p9" :> 6), !.languageTime = ("typescript" :> 6),
     !.hourlyDistribution = HoursOf((1 :> 2) @@ (22 :> 2) @@ (23 :> 2)),
     !.nightOwlTimeMs = 6, !.longestSessionMs = 4, !.editedFileCount = 2]

\* The dates that may hold an aggregate in 2024, one of each quarter and four
\* at the end of December (a Sunday, and the Sunday, Monday and Tuesday after),
\* and what each may hold.
SummaryDays ==
  [d \in {<<2024, 1, 15>>, <<2024, 6, 30>>, <<2024, 7, 1>>, <<2024, 12, 22>>,
          <<2024, 12, 29>>, <<2024, 12, 30>>, <<2024, 12, 31>>} |->
     CASE d = <<2024, 1, 15>> -> <<FocusedDay(d), ShortDay(d)>>
       [] d = <<2024, 6, 30>> -> <<ScatteredDay(d), NightDay(d)>>
       [] d = <<2024, 7, 1>> -> <<ScatteredDay(d), ShortDay(d)>>
       [] d = <<2024, 12, 22>> -> <<FocusedDay(d), createEmptyDailyStats(d)>>
       [] d = <<2024, 12, 29>> -> <<ScatteredDay(d)>>
       [] d = <<2024, 12, 30>> -> <<FocusedDay(d), NightDay(d)>>
       [] OTHER -> <<FocusedDay(d), ScatteredDay(d)>>]

\* The stores of the year: each date absent or holding one of its aggregates.
SummaryStores ==
  UNION {{[getDefaultSchema EXCEPT !.dailyStats = [d \in D |-> SummaryDays[d][g[d]]]] :
            g \in {h \in [D -> 1..2] : \A d \in D : h[d] <= Len(SummaryDays[d])}} :
           D \in SUBSET DOMAIN SummaryDays}

InitSummary ==
  /\ IdleTracker
  /\ today = <<2024, 12, 31>>
  /\ cache \in SummaryStores
  /\ globalState = cache
  /\ useMockData = FALSE
  /\ inFlight = <<>>
  /\ lastCall = NoCall

\* The dashboard asks detectStyles about the summary of a week.
DetectStyles ==
  \E offset \in Offsets :
    \E summary \in {generateWeeklySummary(cache, today, useMockData, offset)} :
      /\ summary # Null
      /\ lastCall' = [op |-> "detectStyles", n |-> 0, periodType |-> "week", offset |-> offset,
                      summary |-> summary, styles |-> detectStyles(summary)]
      /\ UNCHANGED <<hostVars, trackerVars, storeVars, useMockData, inFlight>>

NextSummary == GenerateSummary \/ DetectStyles

SpecSummary == InitSummary /\ [][NextSummary]_vars

\* The summary of the last call, where it made one from the store.
Generated == lastCall.op = "generateSummary" /\ lastCall.result # Null /\ ~lastCall.mock

\* The sum of the key's entries in the per-day maps `maps`.
KeySum(maps, k) == SeqSum([i \in 1..Len(maps) |-> Get(maps[i], k)])

\* The place a key takes in the merge of `maps`: the first map that holds it,
\* then its place among that map's keys.
MergePlace(maps, keys, k) ==
  <<CHOOSE i \in 1..Len(maps) : k \in DOMAIN maps[i] /\ \A j \in 1..(i - 1) : k \notin DOMAIN maps[j],
    CHOOSE i \in 1..Len(keys) : keys[i] = k>>

MergedBefore(maps, keys, a, b) ==
  LET pa == MergePlace(maps, keys, a)
      pb == MergePlace(maps, keys, b)
  IN pa[1] < pb[1] \/ (pa[1] = pb[1] /\ pa[2] < pb[2])

\* `top`, whose entries name their key by keyOf, is the five largest of the
\* key-wise sum of `maps`, largest first, ties in merge order, each with its
\* share of `total`.
IsTopFive(top, keyOf(_), maps, keys, total) ==
  LET all == UNION {DOMAIN maps[i] : i \in 1..Len(maps)}
      kept == {keyOf(top[i]) : i \in 1..Len(top)}
  IN /\ Len(top) = (IF Cardinality(all) < 5 THEN Cardinality(all) ELSE 5)
     /\ kept \subseteq all
     /\ Cardinality(kept) = Len(top)
     /\ \A i \in 1..Len(top) :
          /\ top[i].totalTimeMs = KeySum(maps, keyOf(top[i]))
          /\ top[i].percentage.n * total = top[i].totalTimeMs * 100 * top[i].percentage.d
          /\ top[i].percentage.d > 0
     /\ \A i, j \in 1..Len(top) :
          i < j => \/ top[i].totalTimeMs > top[j].totalTimeMs
                   \/ /\ top[i].totalTimeMs = top[j].totalTimeMs
                      /\ MergedBefore(maps, keys, keyOf(top[i]), keyOf(top[j]))
     /\ \A k \in all \ kept :
          \A i \in 1..Len(top) :
            \/ top[i].totalTimeMs > KeySum(maps, k)
            \/ /\ top[i].totalTimeMs = KeySum(maps, k)
               /\ MergedBefore(maps, keys, keyOf(top[i]), k)

PathOf(p) == p.path
LanguageIdOf(l) == l.languageId

\* C37: topProjects and topLanguages of a summary hold at most five entries,
\* largest totalTimeMs first; they are the five largest entries of the key-wise
\* sum of the per-day projectTime / languageTime maps of the range, ties in the
\* order of the merge, and an entry's percentage is its time over the period's
\* total times 100.
C37_TopFive ==
  Generated =>
    LET summary == lastCall.result
        days == summary.dailyBreakdown
    IN /\ IsTopFive(summary.topProjects, PathOf,
                    [i \in 1..Len(days) |-> days[i].projectTime], ProjectKeys,
                    summary.totalCodingTimeMs)
       /\ IsTopFive(summary.topLanguages, LanguageIdOf,
                    [i \in 1..Len(days) |-> days[i].languageTime], LanguageKeys,
                    summary.totalCodingTimeMs)

\* A year of the ninth project at night and, later, of ten projects in one
\* afternoon: the ninth leads, the first follows with its three half hours,
\* the next three in merge order, and eleven languages leave five.
C37_Witness ==
  /\ Generated
  /\ lastCall.periodType = "year"
  /\ DOMAIN cache.dailyStats = {<<2024, 6, 30>>, <<2024, 12, 31>>}
  /\ cache.dailyStats[<<2024, 6, 30>>].totalTimeMs = 6
  /\ cache.dailyStats[<<2024, 12, 31>>].editedFileCount = 10
  /\ Len(lastCall.result.topProjects) = 5
  /\ [i \in 1..5 |-> lastCall.result.topProjects[i].path]
       = <<"/w/p9", "/w/p1", "/w/p2", "/w/p3", "/w/p4">>
  /\ lastCall.result.topProjects[1].totalTimeMs = 7
  /\ lastCall.result.topProjects[1].percentage = [n |-> 700, d |-> 18]
  /\ lastCall.result.topProjects[3].totalTimeMs = lastCall.result.topProjects[5].totalTimeMs
  /\ [i \in 1..5 |-> lastCall.result.topLanguages[i].languageId]
       = <<"typescript", "python", "go", "rust", "json">>

\* The groups of a breakdown, named by unitOf, part the days: each day's unit
\* names one group, the totals of the groups add up to `total`, and the units
\* ascend.
IsPartition(groups, unitOf(_), dayUnit(_), days, total) ==
  /\ \A i \in 1..Len(days) :
       Cardinality({g \in 1..Len(groups) : unitOf(groups[g]) = dayUnit(days[i])}) = 1
  /\ \A g \in 1..Len(groups) : \E i \in 1..Len(days) : unitOf(groups[g]) = dayUnit(days[i])
  /\ SeqSum([g \in 1..Len(groups) |-> groups[g].totalTimeMs]) = total
  /\ \A g \in 1..(Len(groups) - 1) : unitOf(groups[g]) < unitOf(groups[g + 1])

WeekNumberOf(w) == w.weekNumber
MonthOf(m) == m.month
\* The week of a day, counted in whole weeks from the Sunday on or before the
\* 1st of January of 2024 (2023-12-31), and its month.
DayWeek(day) == ((DateToDays(day.date) - DateToDays(<<2023, 12, 31>>)) \div 7) + 1
DayMonth(day) == day.date[2]

\* C38: the breakdowns part the period: every daily aggregate of the range
\* falls in exactly one week group of a month's weeklyBreakdown and one month
\* group of a year's monthlyBreakdown, the groups' totalTimeMs add up to
\* totalCodingTimeMs, and the groups come in ascending unit number; a week
\* group's dates are the first and last of its days.
C38_BreakdownsPartition ==
  Generated =>
    LET summary == lastCall.result
        days == summary.dailyBreakdown
    IN /\ lastCall.periodType = "month" =>
            /\ IsPartition(summary.weeklyBreakdown, WeekNumberOf, DayWeek, days,
                           summary.totalCodingTimeMs)
            /\ \A g \in 1..Len(summary.weeklyBreakdown) :
                 \A i \in 1..Len(days) :
                   DayWeek(days[i]) = summary.weeklyBreakdown[g].weekNumber =>
                     /\ ~DateLess(days[i].date, summary.weeklyBreakdown[g].weekStartDate)
                     /\ ~DateLess(summary.weeklyBreakdown[g].weekEndDate, days[i].date)
       /\ lastCall.periodType = "year" =>
            IsPartition(summary.monthlyBreakdown, MonthOf, DayMonth, days,
                        summary.totalCodingTimeMs)

\* December with the 22nd, 29th, 30th and 31st: weeks 52 and 53.
C38_Witness ==
  /\ Generated
  /\ lastCall.periodType = "month"
  /\ lastCall.offset = 0
  /\ {<<2024, 12, 22>>, <<2024, 12, 29>>, <<2024, 12, 30>>, <<2024, 12, 31>>}
       \subseteq DOMAIN cache.dailyStats
  /\ cache.dailyStats[<<2024, 12, 22>>].totalTimeMs = 12
  /\ cache.dailyStats[<<2024, 12, 30>>].totalTimeMs = 6
  /\ lastCall.result.totalCodingTimeMs = 42
  /\ lastCall.result.weeklyBreakdown =
       <<[weekNumber |-> 52, weekStartDate |-> <<2024, 12, 22>>,
          weekEndDate |-> <<2024, 12, 22>>, totalTimeMs |-> 12, topLanguage |-> "typescript"],
         [weekNumber |-> 53, weekStartDate |-> <<2024, 12, 29>>,
          weekEndDate |-> <<2024, 12, 31>>, totalTimeMs |-> 30, topLanguage |-> "typescript"]>>

\* The year with January, July and December.
C38_WitnessYear ==
  /\ Generated
  /\ lastCall.periodType = "year"
  /\ lastCall.result.totalCodingTimeMs = 59
  /\ [g \in 1..Len(lastCall.result.monthlyBreakdown) |->
        [month |-> lastCall.result.monthlyBreakdown[g].month,
         totalTimeMs |-> lastCall.result.monthlyBreakdown[g].totalTimeMs]]
       = <<[month |-> 1, totalTimeMs |-> 5], [month |-> 7, totalTimeMs |-> 12],
           [month |-> 12, totalTimeMs |-> 42]>>

\* The time of a language on the days of the months first..last.
HalfUsage(days, lang, first, last) ==
  SeqSum([i \in 1..Len(days) |->
            IF days[i].date[2] >= first /\ days[i].date[2] <= last
            THEN Get(days[i].languageTime, lang) ELSE 0])

\* The entries of languageGrowth follow the rule of the trend: 'increasing'
\* exactly when July-December exceeds 1.2 times January-June, 'decreasing'
\* exactly when it is below 0.8 times it, 'stable' otherwise; the twelve slots
\* of monthlyUsage add up to the language's total of the year.
TrendsByRule(growth, days) ==
  \A g \in 1..Len(growth) :
    LET l == growth[g]
        firstHalf == HalfUsage(days, l.languageId, 1, 6)
        secondHalf == HalfUsage(days, l.languageId, 7, 12)
    IN /\ l.trend \in {"increasing", "decreasing", "stable"}
       /\ l.trend = "increasing" <=> 10 * secondHalf > 12 * firstHalf
       /\ l.trend = "decreasing" <=> 10 * secondHalf < 8 * firstHalf
       /\ DOMAIN l.monthlyUsage = 0..11
       /\ SeqSum([m \in 1..12 |-> l.monthlyUsage[m - 1]]) = firstHalf + secondHalf
       /\ l.totalTimeMs = firstHalf + secondHalf

\* The languages of the per-day languageTime maps of `days`.
LanguagesOf(days) == UNION {DOMAIN days[i].languageTime : i \in 1..Len(days)}

StyleOrder ==
  <<"steady_coder", "marathon_runner", "sprinter",
    "night_owl", "early_bird", "weekday_coder", "weekend_warrior",
    "deep_focus", "multi_tasker", "file_explorer",
    "language_explorer", "specialist", "consistent">>

\* The number of entries of `top` whose share is k percent or more.
SharesAtLeast(top, k) == Cardinality({i \in 1..Len(top) : AtLeast(top[i].percentage, k)})

\* The threshold of an observation of detectStyles, over the summary alone.
Eligible(id, summary) ==
  LET days == summary.dailyBreakdown
      activeDays == Cardinality({i \in 1..Len(days) : days[i].totalTimeMs > 0})
      sessions == {i \in 1..Len(days) : days[i].longestSessionMs > 0}
      sessionSum == SeqSum([i \in 1..Len(days) |-> days[i].longestSessionMs])
      hours == SeqSum([i \in 1..24 |-> summary.hourlyDistribution[i - 1]])
      morning == SeqSum([i \in 1..4 |-> summary.hourlyDistribution[i + 5]])
      week == SeqSum([i \in 1..7 |-> summary.dayOfWeekDistribution[i - 1]])
      weekend == summary.dayOfWeekDistribution[0] + summary.dayOfWeekDistribution[6]
  IN CASE id = "steady_coder" -> Len(days) > 0 /\ 10 * activeDays >= 7 * Len(days)
       [] id = "marathon_runner" -> summary.longestSessionMs >= 3 * HourMs
       [] id = "sprinter" ->
            sessions # {} /\ 2 * sessionSum <= HourMs * Cardinality(sessions) /\ activeDays >= 3
       [] id = "night_owl" -> 100 * summary.nightOwlTimeMs >= 30 * summary.totalCodingTimeMs
       [] id = "early_bird" -> hours > 0 /\ 5 * morning >= hours
       [] id = "weekday_coder" -> week > 0 /\ 100 * (week - weekend) >= 85 * week
       [] id = "weekend_warrior" -> week > 0 /\ 4 * weekend >= week
       [] id = "deep_focus" ->
            Len(summary.topProjects) > 0 /\ AtLeast(summary.topProjects[1].percentage, 70)
       [] id = "multi_tasker" -> SharesAtLeast(summary.topProjects, 15) >= 3
       [] id = "file_explorer" -> summary.totalFilesEdited >= 50
       [] id = "language_explorer" -> SharesAtLeast(summary.topLanguages, 5) >= 4
       [] id = "specialist" ->
            Len(summary.topLanguages) > 0 /\ AtLeast(summary.topLanguages[1].percentage, 80)
       [] OTHER -> summary.streakDays >= 5

\* The eligible observations of a summary, in order.
EligibleStyles(summary) == SelectSeq(StyleOrder, LAMBDA id : Eligible(id, summary))

\* The last call ran detectStyles: on the summary of a week, or inside
\* generateMonthlySummary.
DetectedStyles ==
  \/ lastCall.op = "detectStyles"
  \/ Generated /\ lastCall.periodType = "month"
StyleSummary == IF lastCall.op = "detectStyles" THEN lastCall.summary ELSE lastCall.result
StyleList == IF lastCall.op = "detectStyles" THEN lastCall.styles ELSE lastCall.result.codingStyles

\* C34, as stated: an observation is in the list detectStyles returns exactly
\* when its own threshold holds of the summary.
C34_AppearsIffEligible ==
  DetectedStyles =>
    \A i \in 1..Len(StyleOrder) :
      (\E j \in 1..Len(StyleList) : StyleList[j] = StyleOrder[i])
        <=> Eligible(StyleOrder[i], StyleSummary)

\* C34, amended: an observation is in the list detectStyles returns exactly
\* when its own threshold holds of the summary and fewer than five of the
\* observations before it in the order of evaluation are eligible too.
C34_AppearsIffEligibleAmongFirstFive ==
  DetectedStyles =>
    \A i \in 1..Len(StyleOrder) :
      (\E j \in 1..Len(StyleList) : StyleList[j] = StyleOrder[i])
        <=> /\ Eligible(StyleOrder[i], StyleSummary)
            /\ Cardinality({k \in 1..(i - 1) : Eligible(StyleOrder[k], StyleSummary)}) < 5

\* A December of two focused days and an empty aggregate: seven observations
\* are eligible, file_explorer and specialist among them, and neither is
\* returned; deep_focus, the fifth, is.
C34_Witness ==
  /\ Generated
  /\ lastCall.periodType = "month"
  /\ lastCall.offset = 0
  /\ Len(EligibleStyles(lastCall.result)) = 7
  /\ ~Eligible("steady_coder", lastCall.result)
  /\ Eligible("file_explorer", lastCall.result)
  /\ Eligible("specialist", lastCall.result)
  /\ lastCall.result.codingStyles
       = <<"marathon_runner", "night_owl", "early_bird", "weekday_coder", "deep_focus">>

\* The observations of detectYearlyStyles: those of the year alone, then the
\* stricter variants.
YearlyExclusiveOrder ==
  <<"annual_champion", "growth_star", "seasonal_master", "project_architect", "code_explorer">>
MasterOrder ==
  <<"steady_coder", "marathon_runner", "night_owl", "consistent", "early_bird", "deep_focus",
    "language_explorer", "specialist", "multi_tasker">>

\* The threshold of an observation of the year alone, over the summary.
EligibleExclusive(id, summary) ==
  CASE id = "annual_champion" -> summary.totalCodingTimeMs >= 500 * HourMs
    [] id = "growth_star" ->
         Cardinality({g \in 1..Len(summary.languageGrowth) :
                        /\ \A m \in 0..5 : summary.languageGrowth[g].monthlyUsage[m] = 0
                        /\ \E m \in 6..11 : summary.languageGrowth[g].monthlyUsage[m] > 0}) >= 3
    [] id = "seasonal_master" ->
         \A q \in 0..3 :
           \E g \in 1..Len(summary.monthlyBreakdown) :
             /\ (summary.monthlyBreakdown[g].month - 1) \div 3 = q
             /\ summary.monthlyBreakdown[g].totalTimeMs > 0
    [] id = "project_architect" -> Len(summary.topProjects) >= 10
    [] OTHER -> summary.totalFilesEdited >= 1000

\* The stricter threshold of a variant, over the summary.
EligibleMaster(id, summary) ==
  LET days == summary.dailyBreakdown
      hours == SeqSum([i \in 1..24 |-> summary.hourlyDistribution[i - 1]])
      morning == SeqSum([i \in 1..4 |-> summary.hourlyDistribution[i + 5]])
  IN CASE id = "steady_coder" -> Cardinality({i \in 1..Len(days) : days[i].totalTimeMs > 0}) >= 200
       [] id = "marathon_runner" -> summary.longestSessionMs >= 6 * HourMs
       [] id = "night_owl" -> 100 * summary.nightOwlTimeMs >= 40 * summary.totalCodingTimeMs
       [] id = "consistent" -> summary.streakDays >= 30
       [] id = "early_bird" -> hours > 0 /\ 10 * morning >= 3 * hours
       [] id = "deep_focus" ->
            Len(summary.topProjects) > 0 /\ AtLeast(summary.topProjects[1].percentage, 80)
       [] id = "language_explorer" -> SharesAtLeast(summary.topLanguages, 5) >= 6
       [] id = "specialist" ->
            Len(summary.topLanguages) > 0 /\ AtLeast(summary.topLanguages[1].percentage, 90)
       [] OTHER -> SharesAtLeast(summary.topProjects, 15) >= 5

\* C35: detectStyles returns at most five observations, the first five of the
\* eligible ones in the order time, rhythm, focus, exploration;
\* detectYearlyStyles returns every eligible observation of the year, those of
\* the year alone first, then the stricter variants, however many.
C35_FirstFiveAndAllOfTheYear ==
  /\ DetectedStyles =>
       /\ Len(StyleList) <= 5
       /\ StyleList = Slice(EligibleStyles(StyleSummary), 5)
  /\ (Generated /\ lastCall.periodType = "year") =>
       lastCall.result.codingStyles
         = SelectSeq(YearlyExclusiveOrder, LAMBDA id : EligibleExclusive(id, lastCall.result))
           \o SelectSeq(MasterOrder, LAMBDA id : EligibleMaster(id, lastCall.result))

\* A week of two focused days has eight eligible observations and the first
\* five are returned.
C35_Witness ==
  /\ lastCall.op = "detectStyles"
  /\ EligibleStyles(lastCall.summary)
       = <<"steady_coder", "marathon_runner", "night_owl", "early_bird", "weekday_coder",
           "deep_focus", "file_explorer", "specialist">>
  /\ lastCall.styles
       = <<"steady_coder", "marathon_runner", "night_owl", "early_bird", "weekday_coder">>

\* A year of four focused days, a night and a short day, one day at least in
\* each quarter: two observations of the year and four stricter variants, six
\* in all.
C35_WitnessYear ==
  /\ Generated
  /\ lastCall.periodType = "year"
  /\ lastCall.result.codingStyles
       = <<"seasonal_master", "code_explorer", "night_owl", "early_bird", "deep_focus",
           "specialist">>

\* The projects with recorded time on the days `days`.
ProjectsWithTime(days) ==
  {k \in UNION {DOMAIN days[i].projectTime : i \in 1..Len(days)} :
     \E i \in 1..Len(days) : Get(days[i].projectTime, k) > 0}

\* C36: the codingStyles of a yearly summary of generateYearlySummary hold
\* project_architect exactly when the year has ten or more distinct projects
\* with recorded time.
C36_ArchitectIffTenProjects ==
  (Generated /\ lastCall.periodType = "year") =>
    ((\E j \in 1..Len(lastCall.result.codingStyles) :
        lastCall.result.codingStyles[j] = "project_architect")
       <=> Cardinality(ProjectsWithTime(lastCall.result.dailyBreakdown)) >= 10)

\* A year with ten projects in one afternoon: topProjects holds five of them
\* and project_architect is not among the observations.
C36_Witness ==
  /\ Generated
  /\ lastCall.periodType = "year"
  /\ Cardinality(ProjectsWithTime(lastCall.result.dailyBreakdown)) = 10
  /\ Len(lastCall.result.topProjects) = 5
  /\ \A j \in 1..Len(lastCall.result.codingStyles) :
       lastCall.result.codingStyles[j] # "project_architect"

\* Whatever the year holds, project_architect is not among the observations of
\* its summary.
C36_NeverArchitect ==
  (Generated /\ lastCall.periodType = "year") =>
    \A j \in 1..Len(lastCall.result.codingStyles) :
      lastCall.result.codingStyles[j] # "project_architect"

====
